---------------------------- MODULE Spec2Model ----------------------------
(***************************************************************************)
(* UCI host-side client (new_python_script/uci): the Client of core.py     *)
(* (fragmentation, reassembly, dispatch, command/response), and the UART   *)
(* framing decoder of addin_transport_uart.py.                             *)
(*                                                                         *)
(* Bytes are integers 0..255, byte strings are sequences (1-based here,    *)
(* 0-based in the source).  Python's None is the empty sequence and a      *)
(* present value v is <<v>>.                                                *)
(***************************************************************************)
EXTENDS Integers, Sequences, FiniteSets, TLC

VARIABLES
    msg,              \* Client.msg: the partial-message accumulator
    wq,               \* Client.wq: the response queue (queue.Queue, FIFO)
    notif_handlers,   \* Client.notif_handlers: None or the keys of the dict
    data_handlers,    \* Client.data_handlers: None or the keys of the dict
    pc,               \* caller thread: "idle" or "waiting" (blocked in wq.get)
    cmds,             \* the command() calls made so far, in order
    res,              \* the outcome of each finished command() call
    written,          \* packets the last send_message wrote to the transport
    wqTag,            \* history: for each queued response, where it came from
    dev,              \* device: what became of its answer to each command
    nRx,              \* number of inbound messages/packets received so far
    reader,           \* the transport's reader thread: "running" (in or
                      \* between reads), "dead"; in SpecOrder also
                      \* "check_data" and "handler"
    rx,               \* history: the last call made by the reader thread
    run,              \* history: packets received since the accumulator was empty
    invoked,          \* history (SpecOrder): the notification handler invocations
    buffer,           \* UartTransportProtocol.buffer
    is_synchronized,  \* UartTransportProtocol.is_synchronized
    stream,           \* bytes on the wire not yet read by the reader thread
    sent,             \* the packets (or the message) the peer put on the wire
    delivered,        \* packets the framing layer handed to its callback
    tx,               \* the request: a message to send, or the arguments of
                      \* the library function applied
    ret,              \* what the library function applied returned or raised
    obj               \* the library object operated on (a Buffer, an FP)

clientVars == <<msg, wq, notif_handlers, data_handlers>>
callerVars == <<pc, cmds, res, written, wqTag, dev>>
readerVars == <<nRx, reader, rx, run, invoked>>
uartVars   == <<buffer, is_synchronized, stream, sent, delivered>>
vars == <<msg, wq, notif_handlers, data_handlers, pc, cmds, res, written,
          wqTag, dev, nRx, reader, rx, run, invoked, buffer, is_synchronized, stream, sent,
          delivered, tx, ret, obj>>

---------------------------------------------------------------------------
(* Bounds of the model *)

MaxCmds  == 2      \* command() calls in one behaviour
MaxRx    == 2      \* inbound messages in one behaviour of Spec
MaxPkts  == 3      \* inbound packets in one behaviour of SpecReasm
MaxFragLen == 510  \* longest payload given to send_message in SpecFrag
MaxGarbage == 4    \* bytes of garbage ahead of the packets in SpecFrame
MaxFramePkts == 2  \* packets on the wire in SpecFrame
MaxOrderPkts == 3  \* packets on the wire in SpecOrder
MaxTlvItems == 2   \* items given to tvs_to_bytes in SpecTLV
MaxBufLen == 4     \* bytes in the Buffer of SpecBuffer
MaxCalls == 3      \* session calls in one behaviour of SpecSession
MaxControlees == 2  \* controlees in a list given to session_update_multicast_list
MaxClients == 3    \* Clients constructed in one behaviour of SpecHandlers

---------------------------------------------------------------------------
(* core.py: enumerations and constants *)

MT_DataPacket == 0
MT_Command    == 1
MT_Response   == 2
MT_Notif      == 3

PBF_Final        == 0
PBF_NextExpected == 1

\* the limit of the legacy client (python_script/uci/core.py)
LEGACY_MAX_PAYLOAD == 255

\* send_message: a packet carries at most this many payload bytes
MAX_PAYLOAD == 250

\* the ("default", "default") key of notif_handlers and the "default" key of
\* data_handlers; real keys are pairs of / single non-negative integers
DefaultKey  == <<-1, -1>>
DefaultDpf  == -1

---------------------------------------------------------------------------
(* Python helpers *)

\* s[a:b] for 0 <= a, 0 <= b: clipped to the length of s, never an error
Slice(s, a, b) == SubSeq(s, a + 1, IF b > Len(s) THEN Len(s) ELSE b)

\* int.from_bytes(s, "little")
RECURSIVE FromBytesLE(_)
FromBytesLE(s) == IF Len(s) = 0 THEN 0 ELSE s[1] + 256 * FromBytesLE(Tail(s))

\* 1 << n
RECURSIVE Pow2(_)
Pow2(n) == IF n = 0 THEN 1 ELSE 2 * Pow2(n - 1)

\* int.from_bytes(s, "little", signed=True)
FromBytesSignedLE(s) ==
    IF s # <<>> /\ s[Len(s)] >= 128
    THEN FromBytesLE(s) - Pow2(8 * Len(s))
    ELSE FromBytesLE(s)

\* the position of the highest bit set, one less than the bit length
RECURSIVE bit_length_floor(_)
bit_length_floor(n) == IF n <= 1 THEN 0 ELSE 1 + bit_length_floor(n \div 2)

\* int.bit_length() of a non-negative integer
RECURSIVE bit_length(_)
bit_length(n) == IF n = 0 THEN 0 ELSE 1 + bit_length(n \div 2)

\* header fields of a packet (packet_received, lines 221-224)
HdrMT(b0)  == b0 \div 32          \* (b0 & 0xE0) >> 5
HdrPBF(b0) == (b0 \div 16) % 2    \* (b0 & 0x10) >> 4
HdrGID(b0) == b0 % 16             \* b0 & 0x0F

---------------------------------------------------------------------------
(* Client: outbound side *)

\* send_packet: the bytes written for one packet.  The three fields of byte
\* 0 do not overlap once send_message has checked their widths, so the
\* bitwise or is a sum.
send_packet(mt, gid, oid, pbf, payload) ==
    <<mt * 32 + pbf * 16 + gid, oid, 0, Len(payload)>> \o payload

\* the while loop of send_message, from offset p: the packets written
RECURSIVE send_message_loop(_, _, _, _, _)
send_message_loop(mt, gid, oid, payload, p) ==
    LET total_len == Len(payload)
        left == total_len - p
        n    == IF left > MAX_PAYLOAD THEN MAX_PAYLOAD ELSE left
        pbf  == IF left > MAX_PAYLOAD THEN 1 ELSE 0
        pkt  == send_packet(mt, gid, oid, pbf, Slice(payload, p, p + n))
    IN  IF p + n = total_len
        THEN <<pkt>>
        ELSE <<pkt>> \o send_message_loop(mt, gid, oid, payload, p + n)

\* send_message: the exception raised (or "none") and the packets written
send_message(mt, gid, oid, payload) ==
    IF bit_length(mt) > 3 \/ bit_length(gid) > 4 \/ bit_length(oid) > 6
    THEN [exc |-> "ProtocolError", packets |-> <<>>]
    ELSE [exc |-> "none", packets |-> send_message_loop(mt, gid, oid, payload, 0)]

---------------------------------------------------------------------------
(* Client: inbound side.  A client value c is a record                     *)
(*   msg, wq            the Client's fields                                *)
(*   nh, dh             notif_handlers, data_handlers                      *)
(*   exc                the exception that escaped ("none" if none)        *)
(*   disp               the message_received calls made, in order          *)

Event(m, to, raised) ==
    [mt |-> m.mt, gid |-> m.gid, oid |-> m.oid, payload |-> m.payload,
     to |-> to, raised |-> raised]

\* a handler called without the try/except: what it raises escapes
handler_call_uncaught(c, m, to, hraise) ==
    [c EXCEPT !.exc = IF hraise THEN "Exception" ELSE "none",
              !.disp = Append(@, Event(m, to, hraise))]

\* a handler is called inside try/except Exception: what it raises is logged
\* and does not escape
handler_call(c, m, to, hraise) ==
    [c EXCEPT !.disp = Append(@, Event(m, to, hraise))]

\* message_received: dispatch of the complete message c.msg
message_received(c, hraise) ==
    LET m == c.msg[1] IN
    IF m.mt = MT_Notif THEN
        IF c.nh # <<>> /\ c.nh[1] # {} /\ <<m.gid, m.oid>> \in c.nh[1]
        THEN handler_call(c, m, "handler", hraise)
        ELSE IF c.nh = <<>>
        THEN \* ("default", "default") in None
             [c EXCEPT !.exc = "TypeError", !.disp = Append(@, Event(m, "raise", FALSE))]
        ELSE IF DefaultKey \in c.nh[1]
        THEN handler_call(c, m, "default", hraise)
        ELSE [c EXCEPT !.disp = Append(@, Event(m, "log", FALSE))]
    ELSE IF m.mt = MT_Response THEN
        [c EXCEPT !.wq = Append(@, [gid |-> m.gid, oid |-> m.oid, payload |-> m.payload]),
                  !.disp = Append(@, Event(m, "wq", FALSE))]
    ELSE IF m.mt = MT_DataPacket THEN
        IF c.dh # <<>> /\ c.dh[1] # {} /\ m.gid \in c.dh[1]
        THEN handler_call(c, m, "handler", hraise)
        ELSE IF c.dh = <<>>
        THEN \* "default" in None
             [c EXCEPT !.exc = "TypeError", !.disp = Append(@, Event(m, "raise", FALSE))]
        ELSE IF DefaultDpf \in c.dh[1]
        THEN handler_call(c, m, "default", hraise)
        ELSE [c EXCEPT !.disp = Append(@, Event(m, "log", FALSE))]
    ELSE [c EXCEPT !.disp = Append(@, Event(m, "none", FALSE))]

\* a comparison that leaves the oid out
same_message_no_oid(mt, gid, oid, m) == <<mt, gid>> = <<m.mt, m.gid>>

\* (mt, gid, oid) != self.msg[0:3], negated
same_message(mt, gid, oid, m) == <<mt, gid, oid>> = <<m.mt, m.gid, m.oid>>

\* the end of packet_received: dispatch when the packet is the last one.
\* self.msg = None is skipped when message_received raises.
packet_complete(c, bpf, hraise) ==
    IF bpf = 0
    THEN LET d == message_received(c, hraise)
         IN  IF d.exc = "none" THEN [d EXCEPT !.msg = <<>>] ELSE d
    ELSE c

\* packet_received on a packet of at least two bytes
packet_received(c, packet, hraise) ==
    LET header  == Slice(packet, 0, 4)
        payload == Slice(packet, 4, Len(packet))
        mt  == HdrMT(header[1])
        bpf == HdrPBF(header[1])
        gid == HdrGID(header[1])
        oid == header[2]
    IN  IF c.msg # <<>>
        THEN IF ~ same_message(mt, gid, oid, c.msg[1])
             THEN [c EXCEPT !.exc = "ProtocolError"]
             ELSE packet_complete(
                      [c EXCEPT !.msg = <<[c.msg[1] EXCEPT !.payload = @ \o payload]>>],
                      bpf, hraise)
        ELSE packet_complete(
                 [c EXCEPT !.msg = <<[mt |-> mt, gid |-> gid, oid |-> oid,
                                      payload |-> payload]>>],
                 bpf, hraise)

\* Client.data_received: cut data into packets and hand each to
\* packet_received; an exception ends the call.  header[3] and header[1] of
\* a short header raise IndexError.
RECURSIVE Client_data_received(_, _, _)
Client_data_received(c, data, hraise) ==
    IF Len(data) = 0 \/ c.exc # "none" THEN c
    ELSE LET header == Slice(data, 0, 4)
             mt == HdrMT(header[1])
         IN  IF (mt # MT_DataPacket /\ Len(header) < 4) \/ Len(header) < 2
             THEN [c EXCEPT !.exc = "IndexError"]
             ELSE LET payload_length ==
                          IF mt = MT_DataPacket
                          THEN FromBytesLE(Slice(header, 2, 4))
                          ELSE header[4]
                      packet == Slice(data, 0, 4 + payload_length)
                      rest   == Slice(data, 4 + payload_length, Len(data))
                  IN  Client_data_received(packet_received(c, packet, hraise),
                                           rest, hraise)

\* the Client as a client value, before a call of the reader thread
ClientValue ==
    [msg |-> msg, wq |-> wq, nh |-> notif_handlers, dh |-> data_handlers,
     exc |-> "none", disp |-> <<>>]

---------------------------------------------------------------------------
(* Client.command *)

\* a comparison of the gid alone
response_matches_gid_only(rgid, roid, gid, oid) == rgid = gid

\* (rgid, roid) != (gid, oid), negated
response_matches(rgid, roid, gid, oid) == <<rgid, roid>> = <<gid, oid>>

\* command, after wq.get returned r: the outcome
command_result(gid, oid, r) ==
    IF ~ response_matches(r.gid, r.oid, gid, oid)
    THEN [kind |-> "ProtocolError", ret |-> <<>>]
    ELSE [kind |-> "ok", ret |-> <<r.payload>>]

\* a queue that hands out the newest element
wq_get_newest(q) == Len(q)

\* which element wq.get takes: queue.Queue is first in, first out
wq_get_index(q) == 1

RemoveAt(s, i) == SubSeq(s, 1, i - 1) \o SubSeq(s, i + 1, Len(s))

---------------------------------------------------------------------------
(* The peer (the UWB device) and the wire format of section 3.1 *)

\* a packet as the device puts it on the wire: control packets carry their
\* length in byte 3, data packets as 16 bits, little-endian, in bytes 2..3
WirePacket(mt, pbf, gid, oid, payload) ==
    IF mt = MT_DataPacket
    THEN <<mt * 32 + pbf * 16 + gid, oid, Len(payload) % 256, Len(payload) \div 256>>
         \o payload
    ELSE <<mt * 32 + pbf * 16 + gid, oid, 0, Len(payload)>> \o payload

\* (gid, oid) pairs used by commands, responses and notifications
Keys == {<<1, 2>>, <<1, 3>>}

\* payload of the commands issued
CmdPayloads == {<<0>>}

\* what the device may send without having been asked
UnsolPackets ==
    {WirePacket(MT_Response, PBF_Final, k[1], k[2], <<0>>) : k \in Keys}
    \cup {WirePacket(MT_Notif, PBF_Final, 1, 2, <<0>>)}

---------------------------------------------------------------------------
(* The reader thread: one call of Client.data_received *)

\* a handler called for a notification raised
NotifRaised(disp) ==
    \E i \in DOMAIN disp : disp[i].raised /\ disp[i].mt = MT_Notif

\* serial.threaded.ReaderThread.run: an exception that escapes from the
\* protocol's data_received ends the reader thread
reader_after(exc) == IF exc = "none" THEN "running" ELSE "dead"

ReaderCall(data, hraise) ==
    LET c == Client_data_received(ClientValue, data, hraise) IN
    /\ msg' = c.msg
    /\ wq' = c.wq
    /\ rx' = [data |-> data, premsg |-> msg, exc |-> c.exc, disp |-> c.disp,
              prevNotifRaised |-> NotifRaised(rx.disp)]
    /\ run' = IF msg = <<>> THEN <<data>> ELSE Append(run, data)
    /\ nRx' = nRx + 1
    /\ UNCHANGED <<notif_handlers, data_handlers, invoked>>

\* history kept with a response put on the queue by this call
NewTag(for) ==
    [id |-> nRx + 1, for |-> for, at |-> Len(cmds), idle |-> (pc = "idle"),
     first |-> (wq = <<>>)]

---------------------------------------------------------------------------
(* Spec: the request/response protocol machine.  The caller thread runs    *)
(* command() calls one at a time; the reader thread receives what the      *)
(* device sends.                                                           *)

NoRx == [data |-> <<>>, premsg |-> <<>>, exc |-> "none", disp |-> <<>>,
         prevNotifRaised |-> FALSE]

InitOther ==
    /\ buffer = <<>> /\ is_synchronized = FALSE /\ stream = <<>>
    /\ sent = <<>> /\ delivered = <<>>
    /\ tx = <<>>

Init ==
    /\ msg = <<>> /\ wq = <<>>
    /\ notif_handlers \in {<<>>, <<{DefaultKey}>>}
    /\ data_handlers = <<>>
    /\ pc = "idle" /\ cmds = <<>> /\ res = <<>> /\ written = <<>>
    /\ wqTag = <<>>
    /\ dev = [n \in 1..MaxCmds |-> "no"]
    /\ nRx = 0 /\ reader = "running" /\ rx = NoRx /\ run = <<>>
    /\ invoked = <<>> /\ ret = <<>> /\ obj = <<>>
    /\ InitOther

\* command(): send_message, then block on the queue
Command(k, payload) ==
    /\ pc = "idle"
    /\ Len(cmds) < MaxCmds
    /\ LET s == send_message(MT_Command, k[1], k[2], payload) IN
       /\ written' = s.packets
       /\ cmds' = Append(cmds, [gid |-> k[1], oid |-> k[2], payload |-> payload])
       /\ IF s.exc = "none"
          THEN pc' = "waiting" /\ res' = res
          ELSE pc' = "idle"
               /\ res' = Append(res, [kind |-> s.exc, ret |-> <<>>, took |-> <<>>])
    /\ UNCHANGED <<clientVars, wqTag, dev, readerVars, uartVars, tx, ret, obj>>

\* command(): wq.get returns a queued response
CmdGet ==
    /\ pc = "waiting"
    /\ wq # <<>>
    /\ LET i == wq_get_index(wq)
           cmd == cmds[Len(cmds)]
           r == command_result(cmd.gid, cmd.oid, wq[i])
       IN  /\ res' = Append(res, [kind |-> r.kind, ret |-> r.ret, took |-> <<[resp |-> wq[i], tag |-> wqTag[i]]>>])
           /\ wq' = RemoveAt(wq, i)
           /\ wqTag' = RemoveAt(wqTag, i)
    /\ pc' = "idle"
    /\ UNCHANGED <<msg, notif_handlers, data_handlers, cmds, written, dev,
                   readerVars, uartVars, tx, ret, obj>>

\* command(): wq.get gives up on an empty queue after timeout_delay
CmdTimeout ==
    /\ pc = "waiting"
    /\ wq = <<>>
    /\ res' = Append(res, [kind |-> "TimeoutError", ret |-> <<>>, took |-> <<>>])
    /\ pc' = "idle"
    /\ UNCHANGED <<clientVars, cmds, written, wqTag, dev, readerVars, uartVars, tx, ret, obj>>

\* the commands the device has answered
Answered == {n \in 1..MaxCmds : dev[n] # "no"}

\* the device answers command n (in command order, possibly late), with the
\* command's (gid, oid) and the payload <<n>>; the reader thread receives it
DeviceRespond(n) ==
    /\ nRx < MaxRx
    /\ reader = "running"
    /\ n \in 1..Len(cmds)
    /\ \A a \in Answered : a < n
    /\ \E hraise \in {FALSE} :
          ReaderCall(WirePacket(MT_Response, PBF_Final, cmds[n].gid, cmds[n].oid, <<n>>),
                     hraise)
    /\ reader' = reader_after(rx'.exc)
    /\ wqTag' = IF Len(wq') > Len(wq) THEN Append(wqTag, NewTag(n)) ELSE wqTag
    /\ dev' = [dev EXCEPT ![n] =
                 IF Len(wq') = Len(wq) THEN "lost"
                 ELSE IF pc = "waiting" /\ n = Len(cmds) THEN "intime"
                 ELSE "late"]
    /\ UNCHANGED <<pc, cmds, res, written, uartVars, tx, ret, obj>>

\* the device sends a packet nobody asked for; the reader thread receives it
DeviceUnsolicited(p) ==
    /\ nRx < MaxRx
    /\ reader = "running"
    /\ \E hraise \in BOOLEAN : ReaderCall(p, hraise)
    /\ reader' = reader_after(rx'.exc)
    /\ wqTag' = IF Len(wq') > Len(wq) THEN Append(wqTag, NewTag(0)) ELSE wqTag
    /\ UNCHANGED <<pc, cmds, res, written, dev, uartVars, tx, ret, obj>>

Next ==
    \/ \E k \in Keys, payload \in CmdPayloads : Command(k, payload)
    \/ CmdGet
    \/ CmdTimeout
    \/ \E n \in 1..MaxCmds : DeviceRespond(n)
    \/ \E p \in UnsolPackets : DeviceUnsolicited(p)

Spec == Init /\ [][Next]_vars

---------------------------------------------------------------------------
(* Claims checked under Spec *)

Finished == 1..Len(res)
Took(n)  == res[n].took[1]
TookMismatch(n) ==
    /\ res[n].took # <<>>
    /\ <<Took(n).resp.gid, Took(n).resp.oid>> # <<cmds[n].gid, cmds[n].oid>>

\* C1: whenever the response a command() call takes from the queue carries a
\* (gid, oid) different from the command's, the call ends with ProtocolError
\* and returns no payload.
TH_C1 ==
    \A n \in Finished :
        TookMismatch(n) => res[n].kind = "ProtocolError" /\ res[n].ret = <<>>

W_C1 == \E n \in Finished : TookMismatch(n) /\ res[n].kind = "ProtocolError"

\* C2 (as claimed): a command() call that follows one ended by TimeoutError
\* is accepted, writes its packets and, when the device answers it while it
\* waits, returns the payload of that answer.
CE_C2 ==
    \A n \in Finished :
        (n > 1 /\ res[n - 1].kind = "TimeoutError" /\ dev[n] = "intime")
        => res[n].kind = "ok" /\ res[n].ret = <<(<<n>>)>>

\* C3 (as claimed): a command() call that returns a payload taken from an
\* answer of the device returns the payload of the answer to that very
\* command, not to an earlier one.
CE_C3 ==
    \A n \in Finished :
        (res[n].kind = "ok" /\ Took(n).tag.for # 0)
        => Took(n).tag.for = n /\ res[n].ret = <<(<<n>>)>>

---------------------------------------------------------------------------
(* SpecReasm: packet intake and reassembly.  Client.data_received is       *)
(* called with one packet per call, by a caller that goes on calling after *)
(* an exception; the i-th packet received carries the payload <<i>>, so    *)
(* that the order of concatenation shows.                                  *)

ReasmMTs == {MT_DataPacket, MT_Response, MT_Notif}

NotifHandlerChoices == {<<>>, <<{}>>, <<{<<1, 2>>}>>, <<{DefaultKey}>>}
DataHandlerChoices  == {<<>>, <<{1}>>, <<{DefaultDpf}>>}

InitReasm ==
    /\ msg = <<>> /\ wq = <<>>
    /\ notif_handlers \in NotifHandlerChoices
    /\ data_handlers \in DataHandlerChoices
    /\ pc = "idle" /\ cmds = <<>> /\ res = <<>> /\ written = <<>>
    /\ wqTag = <<>>
    /\ dev = [n \in 1..MaxCmds |-> "no"]
    /\ nRx = 0 /\ reader = "running" /\ rx = NoRx /\ run = <<>>
    /\ invoked = <<>> /\ ret = <<>> /\ obj = <<>>
    /\ InitOther

PacketArrives(mt, pbf, k, hraise) ==
    /\ nRx < MaxPkts
    /\ ReaderCall(WirePacket(mt, pbf, k[1], k[2], <<nRx + 1>>), hraise)
    /\ UNCHANGED <<reader, callerVars, uartVars, tx, ret, obj>>

NextReasm ==
    \E mt \in ReasmMTs, pbf \in {PBF_Final, PBF_NextExpected}, k \in Keys,
       hraise \in BOOLEAN : PacketArrives(mt, pbf, k, hraise)

SpecReasm == InitReasm /\ [][NextReasm]_vars

---------------------------------------------------------------------------
(* Claims checked under SpecReasm *)

PktKey(p)     == <<HdrMT(p[1]), HdrGID(p[1]), p[2]>>
PktPBF(p)     == HdrPBF(p[1])
PktPayload(p) == SubSeq(p, 5, Len(p))
MsgKey(m)     == <<m.mt, m.gid, m.oid>>

RECURSIVE ConcatPayloads(_)
ConcatPayloads(ps) ==
    IF ps = <<>> THEN <<>> ELSE PktPayload(Head(ps)) \o ConcatPayloads(Tail(ps))

\* the packets received since the accumulator was empty are k packets with
\* PBF=1 and then one with PBF=0, all with the same (MT, GID, OID)
CompleteRun ==
    /\ run # <<>>
    /\ \A i \in DOMAIN run :
          /\ PktKey(run[i]) = PktKey(run[1])
          /\ PktPBF(run[i]) = (IF i = Len(run) THEN PBF_Final ELSE PBF_NextExpected)

\* C8 (as claimed): such a run ends in exactly one dispatch, of the
\* concatenation of the packets' payloads, and leaves the accumulator empty.
CE_C8 ==
    CompleteRun =>
        /\ Len(rx.disp) = 1
        /\ MsgKey(rx.disp[1]) = PktKey(run[1])
        /\ rx.disp[1].payload = ConcatPayloads(run)
        /\ msg = <<>>

\* the last packet arrived while a message was partly received, with another
\* (MT, GID, OID) than that message
BadSequence ==
    /\ rx.data # <<>>
    /\ rx.premsg # <<>>
    /\ PktKey(rx.data) # MsgKey(rx.premsg[1])

\* C9: a packet that arrives while a message is partly received, and carries
\* another (MT, GID, OID), is rejected with ProtocolError: the accumulator is
\* as it was and nothing is dispatched.
TH_C9 ==
    BadSequence =>
        /\ rx.exc = "ProtocolError"
        /\ msg = rx.premsg
        /\ rx.disp = <<>>

W_C9 == BadSequence /\ rx.exc = "ProtocolError" /\ PktPBF(rx.data) = PBF_Final

\* the last packet was taken as the start of a new message
StartsNewMessage ==
    /\ rx.premsg = <<>>
    /\ IF PktPBF(rx.data) = PBF_NextExpected
       THEN /\ rx.disp = <<>>
            /\ msg # <<>>
            /\ MsgKey(msg[1]) = PktKey(rx.data)
            /\ msg[1].payload = PktPayload(rx.data)
       ELSE /\ Len(rx.disp) = 1
            /\ MsgKey(rx.disp[1]) = PktKey(rx.data)
            /\ rx.disp[1].payload = PktPayload(rx.data)

CompleteMessage(mt) == CompleteRun /\ PktKey(run[1])[1] = mt

\* what the claims say happens to a complete message with key k under the
\* handler map h (None holds no handler): the handler under k, else the
\* default handler, else the log
ClaimedTarget(h, k, default) ==
    IF h # <<>> /\ k \in h[1] THEN "handler"
    ELSE IF h # <<>> /\ default \in h[1] THEN "default"
    ELSE "log"

\* C11 (as claimed): a complete notification is handed once to the handler
\* under its (gid, oid), else once to the default handler, else it is only
\* logged; nothing is put on the response queue.
CE_C11 ==
    CompleteMessage(MT_Notif) =>
        /\ Len(rx.disp) = 1
        /\ rx.disp[1].to =
              ClaimedTarget(notif_handlers, <<PktKey(run[1])[2], PktKey(run[1])[3]>>,
                            DefaultKey)
        /\ <<rx.disp[1].gid, rx.disp[1].oid>> = <<PktKey(run[1])[2], PktKey(run[1])[3]>>
        /\ rx.disp[1].payload = ConcatPayloads(run)
        /\ \A i \in DOMAIN rx.disp : rx.disp[i].to # "wq"

\* C12 (as claimed): a complete data message is handed to the data handler
\* under its DPF, else to the default data handler, else it is only logged;
\* in all three cases, a Client built without data_handlers included,
\* packet_received returns without raising and the accumulator is cleared.
CE_C12 ==
    CompleteMessage(MT_DataPacket) =>
        /\ Len(rx.disp) = 1
        /\ rx.disp[1].to = ClaimedTarget(data_handlers, PktKey(run[1])[2], DefaultDpf)
        /\ rx.disp[1].payload = ConcatPayloads(run)
        /\ rx.exc = "none"
        /\ msg = <<>>

---------------------------------------------------------------------------
(* SpecFrag: send_message on payloads of every length up to MaxFragLen.    *)
(* Byte i of a payload is i mod 256, so that a packet cut at the wrong     *)
(* place or out of order shows; the payload of scenario S2 is 260 bytes AA.*)

Ramp(len)       == [i \in 1..len |-> i % 256]
Fill(len, byte) == [i \in 1..len |-> byte]

\* (mt, gid, oid) of the messages sent: a command, send_data, the widest ids
FragHeaders == {<<MT_Command, 1, 2>>, <<MT_DataPacket, 1, 0>>, <<MT_Command, 15, 63>>}

FragPayloads == {Ramp(len) : len \in 0..MaxFragLen} \cup {Fill(260, 170)}

InitFrag ==
    /\ msg = <<>> /\ wq = <<>>
    /\ notif_handlers = <<>> /\ data_handlers = <<>>
    /\ pc = "idle" /\ cmds = <<>> /\ res = <<>> /\ written = <<>>
    /\ wqTag = <<>>
    /\ dev = [n \in 1..MaxCmds |-> "no"]
    /\ nRx = 0 /\ reader = "running" /\ rx = NoRx /\ run = <<>>
    /\ invoked = <<>> /\ ret = <<>> /\ obj = <<>>
    /\ buffer = <<>> /\ is_synchronized = FALSE /\ stream = <<>>
    /\ sent = <<>> /\ delivered = <<>>
    /\ \E h \in FragHeaders, payload \in FragPayloads :
          tx = <<[mt |-> h[1], gid |-> h[2], oid |-> h[3], payload |-> payload]>>

\* send_message(mt, gid, oid, payload): the packets go to the transport
SendMessage ==
    /\ tx # <<>>
    /\ written = <<>>
    /\ pc = "idle"
    /\ LET s == send_message(tx[1].mt, tx[1].gid, tx[1].oid, tx[1].payload) IN
       /\ written' = s.packets
       /\ pc' = IF s.exc = "none" THEN "sent" ELSE s.exc
    /\ UNCHANGED <<clientVars, cmds, res, wqTag, dev, readerVars, uartVars, tx, ret, obj>>

NextFrag == SendMessage

SpecFrag == InitFrag /\ [][NextFrag]_vars

---------------------------------------------------------------------------
(* Claims checked under SpecFrag *)

\* the header the claim gives packet i of n
ClaimedHeader(i, n) ==
    <<tx[1].mt * 32 + (IF i < n THEN 1 ELSE 0) * 16 + tx[1].gid,
      tx[1].oid, 0, Len(PktPayload(written[i]))>>

ScenarioS2 ==
    tx[1] = [mt |-> 1, gid |-> 1, oid |-> 2, payload |-> Fill(260, 170)]

\* C5: the payloads of the packets written, concatenated in write order, are
\* the payload given; every packet but the last carries exactly 250 bytes
\* with PBF=1, the last at most 250 with PBF=0; each header is
\* [MT<<5 | PBF<<4 | GID, OID, 0, payload length]; and 260 bytes AA sent as
\* command (1, 2) make two packets with headers 31 02 00 FA and 21 02 00 0A.
TH_C5 ==
    pc = "sent" =>
        LET n == Len(written) IN
        /\ n >= 1
        /\ ConcatPayloads(written) = tx[1].payload
        /\ \A i \in 1..n :
              /\ SubSeq(written[i], 1, 4) = ClaimedHeader(i, n)
              /\ IF i < n
                 THEN Len(PktPayload(written[i])) = 250
                 ELSE Len(PktPayload(written[i])) <= 250
        /\ ScenarioS2 =>
              /\ n = 2
              /\ SubSeq(written[1], 1, 4) = <<49, 2, 0, 250>>
              /\ SubSeq(written[2], 1, 4) = <<33, 2, 0, 10>>
              /\ PktPayload(written[1]) = Fill(250, 170)
              /\ PktPayload(written[2]) = Fill(10, 170)

\* a payload of more than 500 bytes went out in three packets
W_C5 == pc = "sent" /\ Len(written) = 3 /\ Len(tx[1].payload) > 500

---------------------------------------------------------------------------
(* addin_transport_uart.py: UartTransportProtocol.  A decoder value u is a *)
(* record                                                                  *)
(*   buffer, is_synchronized    the protocol's fields                      *)
(*   delivered                  the packets handed to the callback         *)
(*   c                          the Client behind the callback             *)

\* a decoder that reads the size of every packet from byte 3
header_size_byte3(b) == b[4]

\* check_data: the payload size read from the header at the front of the
\* buffer; -1 for a message type it does not know
header_size(b) ==
    LET mt == HdrMT(b[1]) IN
    IF mt \in {1, 2, 3} THEN b[4]
    ELSE IF mt \in {0} THEN b[3] + b[4] * 256
    ELSE IF mt \in {4, 5} THEN b[3] + b[4] * 256
    ELSE -1

\* check_data: deliver every complete packet at the front of the buffer.
\* An exception of the callback leaves the loop before the packet is
\* removed from the buffer.
RECURSIVE check_data(_, _)
check_data(u, hraise) ==
    LET n == Len(u.buffer) IN
    IF n < 4 THEN u
    ELSE LET size == header_size(u.buffer) IN
         IF size < 0 THEN [u EXCEPT !.buffer = <<>>]
         ELSE IF n < 4 + size THEN u
         ELSE LET packet == Slice(u.buffer, 0, 4 + size)
                  c2 == Client_data_received(u.c, packet, hraise)
                  u2 == [u EXCEPT !.c = c2, !.delivered = Append(@, packet)]
              IN  IF c2.exc # "none" THEN u2
                  ELSE check_data([u2 EXCEPT !.buffer = Slice(u.buffer, 4 + size, n)],
                                  hraise)

\* the top nibble of the first byte that lets the decoder synchronize
sync_nibble(b0) == (b0 \div 16) \in {4, 6, 5, 7}

\* UartTransportProtocol.data_received on a non-empty chunk
Uart_data_received(u, data, hraise) ==
    LET synced == u.is_synchronized \/ sync_nibble(data[1])
        kept   == IF synced THEN data ELSE <<>>
    IN  check_data([u EXCEPT !.is_synchronized = synced, !.buffer = @ \o kept],
                   hraise)

\* UartTransportProtocol.connection_lost, called when the reader thread ends
connection_lost(buf) == <<>>

UartValue ==
    [buffer |-> buffer, is_synchronized |-> is_synchronized, delivered |-> <<>>,
     c |-> ClientValue]

\* the reader thread reads the next n bytes of the wire and calls
\* data_received with them
Feed(n) ==
    /\ reader = "running"
    /\ n \in 1..Len(stream)
    /\ \E hraise \in {FALSE} :
          LET data == SubSeq(stream, 1, n)
              u == Uart_data_received(UartValue, data, hraise)
          IN  /\ stream' = SubSeq(stream, n + 1, Len(stream))
              /\ reader' = reader_after(u.c.exc)
              /\ buffer' = IF u.c.exc = "none" THEN u.buffer
                           ELSE connection_lost(u.buffer)
              /\ is_synchronized' = u.is_synchronized
              /\ delivered' = delivered \o u.delivered
              /\ msg' = u.c.msg
              /\ wq' = u.c.wq
              /\ rx' = [data |-> data, premsg |-> msg, exc |-> u.c.exc,
                        disp |-> u.c.disp,
                        prevNotifRaised |-> NotifRaised(rx.disp)]
    /\ nRx' = nRx + 1
    /\ UNCHANGED <<notif_handlers, data_handlers, callerVars, run, invoked, sent, tx, ret, obj>>

---------------------------------------------------------------------------
(* SpecFrame: a fresh decoder reads a wire that carries up to MaxGarbage   *)
(* bytes of garbage and then valid Response/Notification packets, cut into *)
(* data_received calls in every possible way.                              *)

\* bytes whose top nibble is not in {4, 5, 6, 7}; the first four are the
\* garbage of scenario S1
GarbageBytes == <<0, 1, 2, 3, 128, 33, 255, 16, 144, 2, 160, 49, 176, 8, 192, 240>>

\* the Response of scenario S1 and a notification
FramePackets ==
    {WirePacket(MT_Response, PBF_Final, 3, 2, <<0>>),
     WirePacket(MT_Notif, PBF_Final, 1, 2, <<7>>)}

RECURSIVE Flatten(_)
Flatten(ps) == IF ps = <<>> THEN <<>> ELSE Head(ps) \o Flatten(Tail(ps))

FrameSeqs == UNION {[1..n -> FramePackets] : n \in 1..MaxFramePkts}

InitFrame ==
    /\ msg = <<>> /\ wq = <<>>
    /\ notif_handlers = <<{DefaultKey}>> /\ data_handlers = <<{DefaultDpf}>>
    /\ pc = "idle" /\ cmds = <<>> /\ res = <<>> /\ written = <<>>
    /\ wqTag = <<>>
    /\ dev = [n \in 1..MaxCmds |-> "no"]
    /\ nRx = 0 /\ reader = "running" /\ rx = NoRx /\ run = <<>>
    /\ invoked = <<>> /\ ret = <<>> /\ obj = <<>>
    /\ buffer = <<>> /\ is_synchronized = FALSE
    /\ delivered = <<>> /\ tx = <<>>
    /\ sent \in FrameSeqs
    /\ \E g \in 0..MaxGarbage : stream = SubSeq(GarbageBytes, 1, g) \o Flatten(sent)

NextFrame == \E n \in 1..(4 * MaxGarbage + 16) : Feed(n)

SpecFrame == InitFrame /\ [][NextFrame]_vars

\* C7 (as claimed): once the whole wire has been read, whatever the cuts,
\* the garbage is gone and every valid packet was delivered to the Client,
\* in order.
CE_C7 == stream = <<>> => delivered = sent

---------------------------------------------------------------------------
(* SpecRoundTrip: a packet written by send_packet is read by a decoder     *)
(* that is already synchronized.                                           *)

RoundTripMTs  == {MT_DataPacket, MT_Command, MT_Response, MT_Notif}
RoundTripGids == {0, 1, 15}
RoundTripOids == {0, 2, 63}
RoundTripPayloads == {Ramp(0), Ramp(1), Ramp(2), Ramp(MAX_PAYLOAD)}

InitRoundTrip ==
    /\ msg = <<>> /\ wq = <<>>
    /\ notif_handlers = <<{DefaultKey}>> /\ data_handlers = <<{DefaultDpf}>>
    /\ pc = "idle" /\ cmds = <<>> /\ res = <<>> /\ written = <<>>
    /\ wqTag = <<>>
    /\ dev = [n \in 1..MaxCmds |-> "no"]
    /\ nRx = 0 /\ reader = "running" /\ rx = NoRx /\ run = <<>>
    /\ invoked = <<>> /\ ret = <<>> /\ obj = <<>>
    /\ buffer = <<>> /\ is_synchronized = TRUE /\ stream = <<>>
    /\ sent = <<>> /\ delivered = <<>>
    /\ \E mt \in RoundTripMTs, gid \in RoundTripGids, oid \in RoundTripOids,
          payload \in RoundTripPayloads :
          tx = <<[mt |-> mt, gid |-> gid, oid |-> oid, payload |-> payload]>>

\* send_packet(mt, gid, oid, PBF.Final, payload); the bytes go on the wire
Encode ==
    /\ pc = "idle"
    /\ written' = <<send_packet(tx[1].mt, tx[1].gid, tx[1].oid, PBF_Final,
                                tx[1].payload)>>
    /\ stream' = written'[1]
    /\ pc' = "sent"
    /\ UNCHANGED <<clientVars, cmds, res, wqTag, dev, readerVars, buffer,
                   is_synchronized, sent, delivered, tx, ret, obj>>

\* the reader thread reads the whole packet in one call
Decode == pc = "sent" /\ Feed(Len(stream))

NextRoundTrip == Encode \/ Decode

SpecRoundTrip == InitRoundTrip /\ [][NextRoundTrip]_vars

\* C6 (as claimed): the packet written for (MT, GID, OID, payload) is decoded
\* as exactly one packet with the same MT, GID, OID and payload and
\* PBF=Final; a data packet carries its length as 16 bits, little-endian, in
\* header bytes 2..3.
CE_C6 ==
    /\ (pc = "sent" /\ stream = <<>>) =>
          /\ delivered = written
          /\ Len(rx.disp) = 1
          /\ MsgKey(rx.disp[1]) = <<tx[1].mt, tx[1].gid, tx[1].oid>>
          /\ rx.disp[1].payload = tx[1].payload
          /\ PktPBF(delivered[1]) = PBF_Final
    /\ (pc = "sent" /\ tx[1].mt = MT_DataPacket) =>
          FromBytesLE(SubSeq(written[1], 3, 4)) = Len(tx[1].payload)

---------------------------------------------------------------------------
(* SpecOrder: the reader thread step by step.  It reads a chunk from the   *)
(* wire (data_received), then runs check_data's loop, one packet per step; *)
(* a packet that completes a notification with a handler puts the thread   *)
(* inside the handler until the handler returns or raises.  The caller     *)
(* thread is blocked in a command() call and moves on its own.  The i-th   *)
(* packet on the wire carries the payload <<i>>.                           *)

\* a dispatch that hands the handler to another thread and goes on
reader_detached(to) == "check_data"

\* where the reader thread is once message_received has dispatched: a
\* handler is called in the reader thread, which stays in it until it ends
reader_during(to) ==
    IF to \in {"handler", "default"} THEN "handler" ELSE "check_data"

\* the i-th packet of the wire: a notification (whole, or a first or last
\* part) or a response
OrderPackets(i) ==
    {WirePacket(MT_Notif, PBF_Final, 1, 2, <<i>>),
     WirePacket(MT_Notif, PBF_NextExpected, 1, 2, <<i>>),
     WirePacket(MT_Response, PBF_Final, 1, 2, <<i>>)}

OrderSeqs ==
    UNION {{q \in [1..n -> UNION {OrderPackets(i) : i \in 1..n}] :
               \A i \in 1..n : q[i] \in OrderPackets(i)} : n \in 1..MaxOrderPkts}

InitOrder ==
    /\ msg = <<>> /\ wq = <<>>
    /\ notif_handlers \in {<<{<<1, 2>>}>>, <<{DefaultKey}>>}
    /\ data_handlers = <<>>
    /\ pc = "waiting"
    /\ cmds = <<[gid |-> 1, oid |-> 2, payload |-> <<0>>]>>
    /\ written = send_message(MT_Command, 1, 2, <<0>>).packets
    /\ res = <<>> /\ wqTag = <<>>
    /\ dev = [n \in 1..MaxCmds |-> "no"]
    /\ nRx = 0 /\ reader = "running" /\ rx = NoRx /\ run = <<>>
    /\ invoked = <<>> /\ ret = <<>> /\ obj = <<>>
    /\ buffer = <<>> /\ is_synchronized = FALSE
    /\ delivered = <<>> /\ tx = <<>>
    /\ sent \in OrderSeqs
    /\ stream = Flatten(sent)

\* UartTransportProtocol.data_received up to the call of check_data
Read(n) ==
    /\ reader = "running"
    /\ n \in 1..Len(stream)
    /\ LET data == SubSeq(stream, 1, n)
           synced == is_synchronized \/ sync_nibble(data[1])
       IN  /\ is_synchronized' = synced
           /\ buffer' = buffer \o (IF synced THEN data ELSE <<>>)
           /\ stream' = SubSeq(stream, n + 1, Len(stream))
    /\ reader' = "check_data"
    /\ UNCHANGED <<clientVars, callerVars, nRx, rx, run, invoked, sent, delivered,
                   tx, ret, obj>>

\* the handler invocations among the message_received calls of disp
HandlerCalls(disp) ==
    SelectSeq(disp, LAMBDA e : e.mt = MT_Notif /\ e.to \in {"handler", "default"})

\* one pass of check_data's loop.  With a complete packet at the front of
\* the buffer the callback is called; when that calls a notification
\* handler, the step ends inside the handler: the message is still in the
\* accumulator and the packet still in the buffer.
CheckData ==
    /\ reader = "check_data"
    /\ LET n == Len(buffer)
           size == header_size(buffer)
       IN  IF n < 4 \/ size < 0 \/ n < 4 + size
           THEN /\ reader' = "running"
                /\ buffer' = IF n >= 4 /\ size < 0 THEN <<>> ELSE buffer
                /\ UNCHANGED <<msg, wq, wqTag, nRx, rx, invoked, delivered>>
           ELSE LET packet == Slice(buffer, 0, 4 + size)
                    c == Client_data_received(ClientValue, packet, FALSE)
                    calls == HandlerCalls(c.disp)
                    pos == IF calls = <<>> THEN "check_data"
                           ELSE reader_during(calls[1].to)
                IN  /\ delivered' = Append(delivered, packet)
                    /\ nRx' = nRx + 1
                    /\ rx' = [data |-> packet, premsg |-> msg, exc |-> c.exc,
                              disp |-> c.disp,
                              prevNotifRaised |-> NotifRaised(rx.disp)]
                    /\ invoked' =
                          IF calls = <<>> THEN invoked
                          ELSE Append(invoked,
                                      [gid |-> calls[1].gid, oid |-> calls[1].oid,
                                       payload |-> calls[1].payload,
                                       final |-> packet,
                                       at |-> Len(delivered) + 1, end |-> 0,
                                       done |-> FALSE])
                    /\ wq' = c.wq
                    /\ wqTag' = IF Len(c.wq) > Len(wq) THEN Append(wqTag, NewTag(0))
                                ELSE wqTag
                    /\ IF c.exc # "none"
                       THEN /\ reader' = reader_after(c.exc)
                            /\ buffer' = connection_lost(buffer)
                            /\ msg' = c.msg
                       ELSE IF pos = "handler"
                       THEN /\ reader' = pos
                            /\ buffer' = buffer
                            /\ msg' = <<[mt |-> calls[1].mt, gid |-> calls[1].gid,
                                         oid |-> calls[1].oid,
                                         payload |-> calls[1].payload]>>
                       ELSE /\ reader' = pos
                            /\ buffer' = Slice(buffer, 4 + size, n)
                            /\ msg' = c.msg
    /\ UNCHANGED <<notif_handlers, data_handlers, pc, cmds, res, written, dev,
                   run, is_synchronized, stream, sent, tx, ret, obj>>

\* the handler returns or raises: message_received and packet_received end
\* (self.msg = None), the callback returns and check_data drops the packet
HandlerReturn(hraise) ==
    /\ reader = "handler"
    /\ LET c == Client_data_received([ClientValue EXCEPT !.msg = rx.premsg],
                                     rx.data, hraise)
       IN  /\ msg' = c.msg
           /\ wq' = c.wq
           /\ rx' = [rx EXCEPT !.exc = c.exc, !.disp = c.disp]
           /\ reader' = IF c.exc = "none" THEN "check_data" ELSE reader_after(c.exc)
           /\ buffer' = IF c.exc = "none"
                        THEN Slice(buffer, Len(rx.data), Len(buffer))
                        ELSE connection_lost(buffer)
    /\ invoked' = [invoked EXCEPT ![Len(invoked)] =
                      [@ EXCEPT !.done = TRUE, !.end = Len(delivered)]]
    /\ UNCHANGED <<notif_handlers, data_handlers, callerVars, nRx, run,
                   is_synchronized, stream, sent, delivered, tx, ret, obj>>

NextOrder ==
    \/ \E n \in 1..(6 * MaxOrderPkts) : Read(n)
    \/ CheckData
    \/ \E hraise \in BOOLEAN : HandlerReturn(hraise)
    \/ CmdGet
    \/ CmdTimeout

SpecOrder == InitOrder /\ [][NextOrder]_vars

---------------------------------------------------------------------------
(* Claims checked under SpecOrder *)

IsNotifFinal(p) == PktKey(p)[1] = MT_Notif /\ PktPBF(p) = PBF_Final

\* the Final packets of notifications, in wire order
NotifFinals == SelectSeq(sent, IsNotifFinal)

\* handler invocations follow the wire, and one is over before the next
\* packet is processed
InvokedInOrder ==
    /\ Len(invoked) <= Len(NotifFinals)
    /\ \A i \in DOMAIN invoked :
          /\ invoked[i].final = NotifFinals[i]
          /\ <<MT_Notif, invoked[i].gid, invoked[i].oid>> = PktKey(NotifFinals[i])
          /\ delivered[invoked[i].at] = invoked[i].final
          /\ IF invoked[i].done
             THEN invoked[i].end = invoked[i].at
             ELSE /\ i = Len(invoked)
                  /\ reader = "handler"
                  /\ Len(delivered) = invoked[i].at

\* C13: notification handlers are invoked in the order in which the Final
\* packets of their messages arrived on the wire; an invocation starts and
\* ends in steps of the reader thread (the caller thread does not move in
\* them); and it is over before any later packet is processed.
TH_C13 ==
    /\ []InvokedInOrder
    /\ [][invoked' # invoked =>
             /\ reader \in {"check_data", "handler"}
             /\ UNCHANGED callerVars]_vars
    /\ [][reader = "handler" /\ reader' = "handler" =>
             UNCHANGED <<msg, delivered, buffer, invoked>>]_vars

\* two notifications were handled with another packet between their Final
\* packets, and the wire has been read to its end
W_C13 ==
    /\ Len(invoked) = 2
    /\ invoked[2].done
    /\ invoked[2].at > invoked[1].at + 1
    /\ stream = <<>>

---------------------------------------------------------------------------
(* utils.py: DynEnum, DefaultEnum, DynIntEnum.  A member is a record       *)
(* [cls, name, value]; an enum class is a record                           *)
(*   cls               its name                                            *)
(*   member_names      _member_names_, a list                              *)
(*   member_map        _member_map_, from names to members                 *)
(*   value2member_map  _value2member_map_, from values to members         *)

Member(cls, name, value) == [cls |-> cls, name |-> name, value |-> value]

\* class cls(DynIntEnum) with the members pairs = <<name, value>>, ...
EnumClass(cls, pairs) ==
    [cls |-> cls,
     member_names |-> [i \in DOMAIN pairs |-> pairs[i][1]],
     member_map |->
        [n \in {pairs[i][1] : i \in DOMAIN pairs} |->
            Member(cls, n, pairs[CHOOSE i \in DOMAIN pairs : pairs[i][1] = n][2])],
     value2member_map |->
        [v \in {pairs[i][2] : i \in DOMAIN pairs} |->
            Member(cls, pairs[CHOOSE i \in DOMAIN pairs : pairs[i][2] = v][1], v)]]

Names(E) == {E.member_names[i] : i \in DOMAIN E.member_names}

\* v in cls._member_map_.values(), v a member of a DynIntEnum or an
\* integer: members are integers and compare by value
value_in_members(E, value) ==
    \E n \in DOMAIN E.member_map : E.member_map[n].value = value

\* a duplicate test that looks at names only
extend_rejects_name_only(E, k, value) == k \in Names(E)

\* DynEnum.extend: the two tests that raise KeyError
extend_rejects(E, k, value) == k \in Names(E) \/ value_in_members(E, value)

\* DynEnum.extend(values), values an Enum: the loop from its i-th name on.
\* The result is [exc, enum]: the class as the call leaves it.
RECURSIVE extend_loop(_, _, _)
extend_loop(E, values, i) ==
    IF i > Len(values.member_names) THEN [exc |-> "none", enum |-> E]
    ELSE LET k == values.member_names[i]
             v == values.member_map[k]
         IN  IF extend_rejects(E, k, v.value)
             THEN [exc |-> "KeyError", enum |-> E]
             ELSE extend_loop(
                     [E EXCEPT !.member_names = Append(@, k),
                               !.member_map = (k :> v) @@ @,
                               !.value2member_map = (v.value :> v) @@ @],
                     values, i + 1)

\* DynEnum.extend(values), values a dict, given as the list items of its
\* (key, value) pairs: the name then maps to the bare value and the value
\* to the bare name (cls "int" and "str" here)
RECURSIVE extend_dict_loop(_, _, _)
extend_dict_loop(E, items, i) ==
    IF i > Len(items) THEN [exc |-> "none", enum |-> E]
    ELSE LET k == items[i][1]
             v == items[i][2]
         IN  IF extend_rejects(E, k, v)
             THEN [exc |-> "KeyError", enum |-> E]
             ELSE extend_dict_loop(
                     [E EXCEPT !.member_names = Append(@, k),
                               !.member_map = (k :> Member("int", "", v)) @@ @,
                               !.value2member_map = (v :> Member("str", k, v)) @@ @],
                     items, i + 1)

\* DynEnum.extend: values is an Enum (a class record) or a dict ([items])
extend(E, values) ==
    IF "items" \in DOMAIN values
    THEN extend_dict_loop(E, values.items, 1)
    ELSE extend_loop(E, values, 1)

\* DefaultEnum._missing_: cls(cls.Unknown); cls.Unknown is AttributeError
\* in a class without a member of that name
DefaultEnum_missing(E, number) ==
    IF "Unknown" \in DOMAIN E.member_map
    THEN [exc |-> "none",
          member |-> <<E.value2member_map[E.member_map["Unknown"].value]>>]
    ELSE [exc |-> "AttributeError", member |-> <<>>]

\* cls(number): the member with that value, else what _missing_ gives; an
\* exception of _missing_ is raised again by Enum
enum_call(E, number) ==
    IF number \in DOMAIN E.value2member_map
    THEN [exc |-> "none", member |-> <<E.value2member_map[number]>>]
    ELSE DefaultEnum_missing(E, number)

---------------------------------------------------------------------------
(* core.py: TLV encoding.  A definition table is a sequence of entries     *)
(* [tag, lengths, alt]: alt = FALSE for an entry (tag, n), with            *)
(* lengths = <<n>>, and alt = TRUE for an entry (tag, [n1, n2]), with      *)
(* lengths = <<n1, n2>>.  A value is a record [kind, v] with kind "int",   *)
(* "list" (of ints), "bytes" or "dict" (the dict's values, in key order).  *)
(* A result is [exc, bytes]; exc names the exception, "none" if none.      *)

\* the members of App used here (fira_app.py, qorvo_app.py)
App_DeviceType == 0
App_DeviceMacAddress == 6
App_RangingInterval == 9
App_SessionKey == 69
App_NbOfElevationMeasurements == 229

\* the entries of App.defs for these members, in the order of the table
\* (the last one is added by qorvo_app.py)
App_defs ==
    <<[tag |-> App_DeviceType, lengths |-> <<1>>, alt |-> FALSE],
      [tag |-> App_DeviceMacAddress, lengths |-> <<2>>, alt |-> FALSE],
      [tag |-> App_RangingInterval, lengths |-> <<4>>, alt |-> FALSE],
      [tag |-> App_SessionKey, lengths |-> <<16, 32>>, alt |-> TRUE],
      [tag |-> App_NbOfElevationMeasurements, lengths |-> <<0>>, alt |-> FALSE]>>

\* get_length: the first entry of defs for v, <<>> for ValueError("BadType")
get_length(defs, v) ==
    LET hits == SelectSeq(defs, LAMBDA d : d.tag = v)
    IN  IF hits = <<>> THEN <<>> ELSE <<hits[1]>>

\* v.to_bytes(length, "big"), for a v that fits
RECURSIVE to_bytes_big(_, _)
to_bytes_big(v, length) ==
    IF length = 0 THEN <<>>
    ELSE Append(to_bytes_big(v \div 256, length - 1), v % 256)

\* v.to_bytes(length, "little"), for a v that fits
RECURSIVE to_bytes_little(_, _)
to_bytes_little(v, length) ==
    IF length = 0 THEN <<>>
    ELSE <<v % 256>> \o to_bytes_little(v \div 256, length - 1)

\* the byte order tvs_to_bytes asks for
to_bytes(v, length) == to_bytes_little(v, length)

\* int.to_bytes raises OverflowError for a negative v and for one too big
RECURSIVE fits(_, _)
fits(v, length) ==
    /\ v >= 0
    /\ IF length = 0 THEN v = 0 ELSE fits(v \div 256, length - 1)

\* the items of a list value, each at the width length
RECURSIVE list_to_le(_, _)
list_to_le(v, length) ==
    IF v = <<>> THEN [exc |-> "none", bytes |-> <<>>]
    ELSE IF ~ fits(Head(v), length) THEN [exc |-> "OverflowError", bytes |-> <<>>]
    ELSE LET r == list_to_le(Tail(v), length)
         IN  [r EXCEPT !.bytes = to_bytes(Head(v), length) \o @]

\* the body of the loop of tvs_to_bytes for one (t, v): what is appended
tv_to_bytes(defs, t, v) ==
    LET found == get_length(defs, t) IN
    IF found = <<>> THEN [exc |-> "ValueError(BadType)", bytes |-> <<>>]
    ELSE
    LET lengths == found[1] IN
    IF v.kind = "list" THEN
        LET length == lengths.lengths[1]
            items  == list_to_le(v.v, length)
        IN  IF ~ fits(Len(v.v) * length, 1)
            THEN [exc |-> "OverflowError", bytes |-> <<>>]
            ELSE [items EXCEPT !.bytes = <<t, Len(v.v) * length>> \o @]
    ELSE IF v.kind = "dict" THEN
        \* lengths[0] of an integer, or lengths[1][i] of an integer
        IF ~ lengths.alt \/ v.v # <<>>
        THEN [exc |-> "TypeError", bytes |-> <<>>]
        ELSE [exc |-> "none", bytes |-> <<t, lengths.lengths[1]>>]
    ELSE IF lengths.alt /\ v.kind = "int"
    THEN \* len(v) of an integer
         [exc |-> "TypeError", bytes |-> <<>>]
    ELSE
        LET length == IF lengths.alt
                      THEN (IF Len(v.v) = 32 THEN lengths.lengths[2]
                            ELSE lengths.lengths[1])
                      ELSE lengths.lengths[1]
        IN  IF v.kind = "bytes"
            THEN IF Len(v.v) # length
                 THEN [exc |-> "ValueError(BadLength)", bytes |-> <<>>]
                 ELSE [exc |-> "none", bytes |-> <<t, length>> \o v.v]
            ELSE IF ~ fits(v.v, length)
                 THEN [exc |-> "ValueError(Unable to set param)", bytes |-> <<>>]
                 ELSE [exc |-> "none", bytes |-> <<t, length>> \o to_bytes(v.v, length)]

RECURSIVE tvs_to_bytes_loop(_, _)
tvs_to_bytes_loop(defs, tvs) ==
    IF tvs = <<>> THEN [exc |-> "none", bytes |-> <<>>]
    ELSE LET one == tv_to_bytes(defs, Head(tvs).t, Head(tvs).v) IN
         IF one.exc # "none" THEN one
         ELSE LET r == tvs_to_bytes_loop(defs, Tail(tvs))
              IN  [r EXCEPT !.bytes = one.bytes \o @]

\* tvs_to_bytes(defs, tvs), for fewer than 256 items
tvs_to_bytes(defs, tvs) ==
    LET r == tvs_to_bytes_loop(defs, tvs)
    IN  IF r.exc # "none" THEN r ELSE [r EXCEPT !.bytes = <<Len(tvs)>> \o @]

---------------------------------------------------------------------------
(* core.py: TLV decoding, and the parameter enums it is used with *)

\* App of fira_app.py (the members used here; none is called Unknown),
\* extended by qorvo_app.py
App_fira ==
    EnumClass("App", <<<<"DeviceType", App_DeviceType>>,
                       <<"DeviceMacAddress", App_DeviceMacAddress>>,
                       <<"RangingInterval", App_RangingInterval>>,
                       <<"SessionKey", App_SessionKey>>>>)

App_extension ==
    EnumClass("App_extension",
              <<<<"NbOfElevationMeasurements", App_NbOfElevationMeasurements>>>>)

App == extend(App_fira, App_extension).enum

\* Config of fira_conf.py and Config.defs
Config == EnumClass("Config", <<<<"State", 0>>, <<"LowPowerMode", 1>>>>)

Config_defs ==
    <<[tag |-> 0, lengths |-> <<1>>, alt |-> FALSE],
      [tag |-> 1, lengths |-> <<1>>, alt |-> FALSE]>>

\* [int.from_bytes(payload[p + i*l_elem : p + (i+1)*l_elem]) for i in
\* range(nb_elem)], from i on
RECURSIVE elems_from_bytes(_, _, _, _, _)
elems_from_bytes(payload, p, l_elem, nb_elem, i) ==
    IF i >= nb_elem THEN <<>>
    ELSE <<FromBytesLE(Slice(payload, p + i * l_elem, p + (i + 1) * l_elem))>>
         \o elems_from_bytes(payload, p, l_elem, nb_elem, i + 1)

\* the loop of tlvs_from_bytes from the i-th of n items on, at offset p.
\* A result is [exc, res]; an item of res is [tag, l_elem, v] with tag a
\* member or the integer read (cls "int"), and v [kind, v] as above.
RECURSIVE tlvs_from_bytes_loop(_, _, _, _, _, _)
tlvs_from_bytes_loop(enum_class, defs, payload, n, i, p) ==
    IF i >= n THEN [exc |-> "none", res |-> <<>>]
    ELSE IF p + 1 >= Len(payload) THEN [exc |-> "IndexError", res |-> <<>>]
    ELSE
    LET t == payload[p + 1]
        l == payload[p + 2]
        found == get_length(defs, t)
        l_elem == IF found = <<>> \/ found[1].alt THEN l ELSE found[1].lengths[1]
        q == p + 2
        tag == enum_call(enum_class, t)
        rest == tlvs_from_bytes_loop(enum_class, defs, payload, n, i + 1, q + l)
    IN  IF l_elem # l /\ l_elem = 0
        THEN [exc |-> "ZeroDivisionError", res |-> <<>>]
        ELSE IF l_elem # l /\ l % l_elem # 0
        THEN [exc |-> "ValueError(BadLength)", res |-> <<>>]
        ELSE IF tag.exc \notin {"none", "ValueError"}
        THEN [exc |-> tag.exc, res |-> <<>>]
        ELSE
        LET v == IF l_elem = l
                 THEN [kind |-> "int", v |-> FromBytesLE(Slice(payload, q, q + l))]
                 ELSE [kind |-> "list",
                       v |-> elems_from_bytes(payload, q, l_elem, l \div l_elem, 0)]
            item == [tag |-> IF tag.exc = "none" THEN tag.member[1]
                             ELSE Member("int", "", t),
                     l_elem |-> l_elem, v |-> v]
        IN  IF rest.exc # "none" THEN rest
            ELSE [rest EXCEPT !.res = <<item>> \o @]

\* tlvs_from_bytes(enum_class, payload), defs being enum_class.defs
tlvs_from_bytes(enum_class, defs, payload) ==
    IF payload = <<>> THEN [exc |-> "IndexError", res |-> <<>>]
    ELSE tlvs_from_bytes_loop(enum_class, defs, payload, payload[1], 0, 1)

---------------------------------------------------------------------------
(* SpecTLV: tvs_to_bytes(App.defs, tvs) on lists of up to MaxTlvItems      *)
(* (tag, value) pairs, and tlvs_from_bytes(App or Config, payload) on      *)
(* well-formed payloads of up to MaxTlvItems items.                        *)

\* a tag absent from App, App.defs, Config and Config.defs
TagUnknown == 238

TlvEncodeTags == {App_DeviceMacAddress, App_RangingInterval, App_SessionKey, TagUnknown}

TlvEncodeValues ==
    {[kind |-> "int", v |-> 200], [kind |-> "int", v |-> 4660],
     [kind |-> "int", v |-> 70000],
     [kind |-> "list", v |-> <<1, 4660>>],
     [kind |-> "bytes", v |-> <<1, 2>>], [kind |-> "bytes", v |-> <<1, 2, 3, 4>>]}

TlvEncodeItems == {[t |-> t, v |-> v] : t \in TlvEncodeTags, v \in TlvEncodeValues}

\* one item on the wire: tag, length, and the bytes 1, 2, ..., l
WireItem(t, l) == <<t, l>> \o [i \in 1..l |-> i]

TlvDecodeTags ==
    {App_DeviceType, App_DeviceMacAddress, App_SessionKey,
     App_NbOfElevationMeasurements, TagUnknown}

TlvWireItems == {WireItem(t, l) : t \in TlvDecodeTags, l \in {0, 1, 2, 4}}

SeqsUpTo(S, n) == UNION {[1..k -> S] : k \in 0..n}

\* the parameter enums: the class and its defs
ParamEnum(name) ==
    IF name = "App" THEN [enum |-> App, defs |-> App_defs]
    ELSE [enum |-> Config, defs |-> Config_defs]

InitTLV ==
    /\ msg = <<>> /\ wq = <<>>
    /\ notif_handlers = <<>> /\ data_handlers = <<>>
    /\ pc = "idle" /\ cmds = <<>> /\ res = <<>> /\ written = <<>>
    /\ wqTag = <<>>
    /\ dev = [n \in 1..MaxCmds |-> "no"]
    /\ nRx = 0 /\ reader = "running" /\ rx = NoRx /\ run = <<>>
    /\ invoked = <<>> /\ ret = <<>> /\ obj = <<>>
    /\ buffer = <<>> /\ is_synchronized = FALSE /\ stream = <<>>
    /\ sent = <<>> /\ delivered = <<>>
    /\ \/ \E tvs \in SeqsUpTo(TlvEncodeItems, MaxTlvItems) :
             tx = <<[op |-> "tvs_to_bytes", tvs |-> tvs]>>
       \/ \E name \in {"App", "Config"}, items \in SeqsUpTo(TlvWireItems, MaxTlvItems) :
             tx = <<[op |-> "tlvs_from_bytes", cls |-> name, items |-> items,
                     payload |-> <<Len(items)>> \o Flatten(items)]>>

TvsToBytes ==
    /\ pc = "idle"
    /\ tx[1].op = "tvs_to_bytes"
    /\ ret' = <<tvs_to_bytes(App_defs, tx[1].tvs)>>
    /\ pc' = "done"
    /\ UNCHANGED <<clientVars, cmds, res, written, wqTag, dev, readerVars,
                   uartVars, tx, obj>>

TlvsFromBytes ==
    /\ pc = "idle"
    /\ tx[1].op = "tlvs_from_bytes"
    /\ ret' = <<tlvs_from_bytes(ParamEnum(tx[1].cls).enum, ParamEnum(tx[1].cls).defs,
                                tx[1].payload)>>
    /\ pc' = "done"
    /\ UNCHANGED <<clientVars, cmds, res, written, wqTag, dev, readerVars,
                   uartVars, tx, obj>>

NextTLV == TvsToBytes \/ TlvsFromBytes

SpecTLV == InitTLV /\ [][NextTLV]_vars

---------------------------------------------------------------------------
(* Claims checked under SpecTLV *)

Encoded == pc = "done" /\ tx[1].op = "tvs_to_bytes"
Decoded == pc = "done" /\ tx[1].op = "tlvs_from_bytes"

\* the width App.defs declares for tag t, when it declares exactly one
DeclaredWidth(t) ==
    LET d == CHOOSE d \in {App_defs[i] : i \in DOMAIN App_defs} : d.tag = t
    IN  d.lengths[1]

HasOneWidth(t) ==
    \E i \in DOMAIN App_defs : App_defs[i].tag = t /\ ~ App_defs[i].alt

\* v without its k low bytes
RECURSIVE DropBytes(_, _)
DropBytes(v, k) == IF k = 0 THEN v ELSE DropBytes(v \div 256, k - 1)

\* v in little-endian at width w
LittleEndian(v, w) == [i \in 1..w |-> DropBytes(v, i - 1) % 256]

RECURSIVE ConcatLittleEndian(_, _)
ConcatLittleEndian(vs, w) ==
    IF vs = <<>> THEN <<>>
    ELSE LittleEndian(Head(vs), w) \o ConcatLittleEndian(Tail(vs), w)

\* the items the claim speaks of: a declared width, and numbers that fit
Encodable(item) ==
    /\ HasOneWidth(item.t)
    /\ item.v.kind = "int" => DropBytes(item.v.v, DeclaredWidth(item.t)) = 0
    /\ item.v.kind = "list" =>
          /\ Len(item.v.v) * DeclaredWidth(item.t) < 256
          /\ \A i \in DOMAIN item.v.v :
                DropBytes(item.v.v[i], DeclaredWidth(item.t)) = 0

WrongLength(item) ==
    item.v.kind = "bytes" /\ Len(item.v.v) # DeclaredWidth(item.t)

\* what the claim says is emitted for one item
ClaimedItem(item) ==
    LET w == DeclaredWidth(item.t) IN
    IF item.v.kind = "int" THEN <<item.t, w>> \o LittleEndian(item.v.v, w)
    ELSE IF item.v.kind = "list"
    THEN <<item.t, Len(item.v.v) * w>> \o ConcatLittleEndian(item.v.v, w)
    ELSE <<item.t, w>> \o item.v.v

RECURSIVE ClaimedItems(_)
ClaimedItems(tvs) ==
    IF tvs = <<>> THEN <<>> ELSE ClaimedItem(Head(tvs)) \o ClaimedItems(Tail(tvs))

ScenarioS3 ==
    tx[1].tvs = <<[t |-> App_DeviceMacAddress, v |-> [kind |-> "int", v |-> 4660]],
                  [t |-> App_RangingInterval, v |-> [kind |-> "int", v |-> 200]]>>

\* C14: tvs_to_bytes emits the item count in one byte and then, for each
\* (tag, value) in order, the tag, a length byte and the value in
\* little-endian at the declared width: a list as n items of that width
\* with length n * width, bytes as they are, and bytes of another length
\* than the declared one fail with ValueError("BadLength"); the list
\* [(DeviceMacAddress, 0x1234), (RangingInterval, 200)] gives
\* 02 06 02 34 12 09 04 C8 00 00 00.
TH_C14 ==
    Encoded =>
        /\ (\A i \in DOMAIN tx[1].tvs : Encodable(tx[1].tvs[i])) =>
              IF \E i \in DOMAIN tx[1].tvs : WrongLength(tx[1].tvs[i])
              THEN ret[1].exc = "ValueError(BadLength)"
              ELSE /\ ret[1].exc = "none"
                   /\ ret[1].bytes = <<Len(tx[1].tvs)>> \o ClaimedItems(tx[1].tvs)
        /\ ScenarioS3 => ret[1].bytes = <<2, 6, 2, 52, 18, 9, 4, 200, 0, 0, 0>>

\* a list and a number were encoded together
W_C14 ==
    /\ Encoded
    /\ ret[1].exc = "none"
    /\ Len(tx[1].tvs) = 2
    /\ tx[1].tvs[1].v.kind = "list"
    /\ tx[1].tvs[2].v.kind = "int"
    /\ \A i \in DOMAIN tx[1].tvs : Encodable(tx[1].tvs[i])

\* the element length tlvs_from_bytes is to use for a wire item <<t, l, ..>>
\* of a tag in the table: the declared one, or the wire length for a tag
\* declared with two alternatives
DeclaredElem(defs, item) ==
    LET d == get_length(defs, item[1])[1]
    IN  IF d.alt THEN item[2] ELSE d.lengths[1]

InTable(defs, item) == get_length(defs, item[1]) # <<>>

\* the claimed outcome for a wire item of a tag in the table
ClaimedKind(defs, item) ==
    LET d == DeclaredElem(defs, item)
        l == item[2]
    IN  IF l = d THEN "int"
        ELSE IF d # 0 /\ l % d = 0 THEN "list"
        ELSE "BadLength"

DecodeDefs == ParamEnum(tx[1].cls).defs

\* C15 (as claimed): when every tag is in the definition table, each item
\* decodes to a scalar if its wire length is the declared element length,
\* to a list of length/declared scalars if it is a multiple of it, and
\* decoding fails otherwise, with ValueError("BadLength") and no other
\* error.
CE_C15 ==
    (Decoded /\ \A i \in DOMAIN tx[1].items : InTable(DecodeDefs, tx[1].items[i])) =>
        IF \E i \in DOMAIN tx[1].items :
              ClaimedKind(DecodeDefs, tx[1].items[i]) = "BadLength"
        THEN ret[1].exc = "ValueError(BadLength)"
        ELSE /\ ret[1].exc = "none"
             /\ Len(ret[1].res) = Len(tx[1].items)
             /\ \A i \in DOMAIN tx[1].items :
                   /\ ret[1].res[i].v.kind = ClaimedKind(DecodeDefs, tx[1].items[i])
                   /\ ret[1].res[i].v.kind = "list" =>
                         Len(ret[1].res[i].v.v) * DeclaredElem(DecodeDefs, tx[1].items[i])
                            = tx[1].items[i][2]

\* C16 (as claimed): a well-formed payload with tags absent from the
\* definition table (its other items being decodable) gives one result
\* item per wire item, the unknown ones as the Unknown member or as the
\* integer read, and does not raise.
CE_C16 ==
    (/\ Decoded
     /\ \E i \in DOMAIN tx[1].items : ~ InTable(DecodeDefs, tx[1].items[i])
     /\ \A i \in DOMAIN tx[1].items :
           InTable(DecodeDefs, tx[1].items[i]) =>
              ClaimedKind(DecodeDefs, tx[1].items[i]) # "BadLength")
    => /\ ret[1].exc = "none"
       /\ Len(ret[1].res) = Len(tx[1].items)
       /\ \A i \in DOMAIN tx[1].items :
             ~ InTable(DecodeDefs, tx[1].items[i]) =>
                ret[1].res[i].tag.name = "Unknown" \/ ret[1].res[i].tag.cls = "int"

---------------------------------------------------------------------------
(* SpecEnum: the protocol enums.  One call per behaviour: E(number) for an *)
(* enum used to decode inbound bytes, or E.extend(values).                 *)

\* fira_enums.py
Gid ==
    EnumClass("Gid", <<<<"Core", 0>>, <<"Session", 1>>, <<"Ranging", 2>>,
                       <<"Test", 13>>>>)

Status ==
    EnumClass("Status",
       <<<<"Ok", 0>>,
         <<"Rejected", 1>>,
         <<"Failed", 2>>,
         <<"SyntaxErr", 3>>,
         <<"InvalidParam", 4>>,
         <<"InvalidRange", 5>>,
         <<"InvalidMessageSize", 6>>,
         <<"UnknownGid", 7>>,
         <<"UnknownOid", 8>>,
         <<"ReadOnly", 9>>,
         <<"CommandRetry", 10>>,
         <<"ErrorSessionNotExist", 17>>,
         <<"ErrorSessionDuplicate", 18>>,
         <<"ErrorSessionActive", 19>>,
         <<"ErrorMaxSessionsExceeded", 20>>,
         <<"ErrorSessionNotConfigured", 21>>,
         <<"ErrorActiveSessionsOngoing", 22>>,
         <<"ErrorMulticastListFull", 23>>,
         <<"ErrorUwbInitializationTimeTooOld", 26>>,
         <<"RangingNegativeDistance", 27>>,
         <<"RangingTxFailed", 32>>,
         <<"RangingRxTimeout", 33>>,
         <<"RangingRxPhyDecFailed", 34>>,
         <<"RangingRxPhyToaFailed", 35>>,
         <<"RangingRxPhyStsFailed", 36>>,
         <<"RangingRxMacDecFailed", 37>>,
         <<"RangingRxMacIeDecFailed", 38>>,
         <<"RangingRxMacIeMissing", 39>>,
         <<"ErrorRoundIndexNotActivated", 40>>,
         <<"ErrorNumberOfActiveRoundExceeded", 41>>,
         <<"ErrorDlTdoaDeviceAddressNotMatchingInReplyTimeList", 42>>,
         <<"ErrorSeBusy", 80>>,
         <<"ErrorCccLifeCycle", 81>>,
         <<"Unknown", 255>>>>)

SessionState ==
    EnumClass("SessionState", <<<<"Init", 0>>, <<"DeInit", 1>>, <<"Active", 2>>,
                                <<"Idle", 3>>, <<"Unknown", -1>>>>)

DeviceState ==
    EnumClass("DeviceState", <<<<"Ready", 1>>, <<"Active", 2>>, <<"Error", 255>>,
                               <<"Unknown", 65535>>>>)

\* custom.py
Gid_extension == EnumClass("Gid_extension", <<<<"UwbConfigManager", 15>>>>)

\* the enums inbound bytes are converted with
InboundEnums == {Gid, Status, SessionState, DeviceState, App, Config}

\* the integers converted: values of members and others, a byte or wider
InboundNumbers == {0, 1, 2, 3, 6, 7, 13, 15, 69, 200, 229, 238, 255, 4660, 65535}

\* classes to extend, and what they are extended with: the extensions of
\* the repository, and ones that share a name or a value with a member
ExtendBases == {Gid, Status, App_fira}

ExtendValues ==
    {Gid_extension, App_extension,
     EnumClass("X", <<>>),
     EnumClass("X", <<<<"Extra", 100>>, <<"More", 101>>>>),
     EnumClass("X", <<<<"Extra", 100>>, <<"Ok", 101>>>>),
     EnumClass("X", <<<<"Core", 100>>>>),
     EnumClass("X", <<<<"Extra", 100>>, <<"Other", 1>>>>),
     EnumClass("X", <<<<"Other", 0>>>>),
     [items |-> <<<<"Extra", 100>>>>],
     [items |-> <<<<"Extra", 2>>>>]}

InitEnum ==
    /\ msg = <<>> /\ wq = <<>>
    /\ notif_handlers = <<>> /\ data_handlers = <<>>
    /\ pc = "idle" /\ cmds = <<>> /\ res = <<>> /\ written = <<>>
    /\ wqTag = <<>>
    /\ dev = [n \in 1..MaxCmds |-> "no"]
    /\ nRx = 0 /\ reader = "running" /\ rx = NoRx /\ run = <<>>
    /\ invoked = <<>> /\ ret = <<>> /\ obj = <<>>
    /\ buffer = <<>> /\ is_synchronized = FALSE /\ stream = <<>>
    /\ sent = <<>> /\ delivered = <<>>
    /\ \/ \E E \in InboundEnums, number \in InboundNumbers :
             tx = <<[op |-> "call", enum |-> E, number |-> number]>>
       \/ \E E \in ExtendBases, values \in ExtendValues :
             tx = <<[op |-> "extend", enum |-> E, values |-> values]>>

\* E(number)
EnumCall ==
    /\ pc = "idle"
    /\ tx[1].op = "call"
    /\ ret' = <<enum_call(tx[1].enum, tx[1].number)>>
    /\ pc' = "done"
    /\ UNCHANGED <<clientVars, cmds, res, written, wqTag, dev, readerVars,
                   uartVars, tx, obj>>

\* E.extend(values)
EnumExtend ==
    /\ pc = "idle"
    /\ tx[1].op = "extend"
    /\ ret' = <<extend(tx[1].enum, tx[1].values)>>
    /\ pc' = "done"
    /\ UNCHANGED <<clientVars, cmds, res, written, wqTag, dev, readerVars,
                   uartVars, tx, obj>>

NextEnum == EnumCall \/ EnumExtend

SpecEnum == InitEnum /\ [][NextEnum]_vars

---------------------------------------------------------------------------
(* Claims checked under SpecEnum *)

Called   == pc = "done" /\ tx[1].op = "call"
Extended == pc = "done" /\ tx[1].op = "extend" /\ "items" \notin DOMAIN tx[1].values

\* C17 (as claimed): converting an integer that matches no member returns
\* the enum's Unknown member, without an exception.
CE_C17 ==
    (Called /\ tx[1].number \notin DOMAIN tx[1].enum.value2member_map) =>
        /\ ret[1].exc = "none"
        /\ ret[1].member[1].name = "Unknown"
        /\ ret[1].member[1].cls = tx[1].enum.cls

\* E[name] and E(value) in the class as it was before the call
KeepsMembers(before, after) ==
    /\ \A n \in Names(before) :
          n \in DOMAIN after.member_map /\ after.member_map[n] = before.member_map[n]
    /\ \A v \in DOMAIN before.value2member_map :
          enum_call(after, v) = [exc |-> "none", member |-> <<before.value2member_map[v]>>]

\* values has a name or a value that E has already
Clashes(E, values) ==
    \E k \in Names(values) :
        \/ k \in Names(E)
        \/ \E n \in Names(E) : E.member_map[n].value = values.member_map[k].value

\* C18: after a successful E.extend(other) every name and value E had maps
\* to the same member as before and the members of other are reachable by
\* name and by value; an extension with a name or a value E has already is
\* rejected with KeyError (and what E had then still maps as before).
TH_C18 ==
    Extended =>
        LET E == tx[1].enum
            other == tx[1].values
            after == ret[1].enum
        IN  /\ KeepsMembers(E, after)
            /\ ret[1].exc = (IF Clashes(E, other) THEN "KeyError" ELSE "none")
            /\ ret[1].exc = "none" =>
                  \A k \in Names(other) :
                      /\ k \in DOMAIN after.member_map
                      /\ after.member_map[k] = other.member_map[k]
                      /\ enum_call(after, other.member_map[k].value)
                            = [exc |-> "none", member |-> <<other.member_map[k]>>]

\* a class was extended by two members
W_C18 ==
    /\ Extended
    /\ ret[1].exc = "none"
    /\ Len(ret[1].enum.member_names) = Len(tx[1].enum.member_names) + 2

\* C39 (as claimed): when E.extend raises KeyError for a duplicate name or
\* value, the member names, the name-to-member map and the value-to-member
\* map of E are exactly as they were before the call.
CE_C39 ==
    (pc = "done" /\ tx[1].op = "extend" /\ ret[1].exc = "KeyError") =>
        /\ ret[1].enum.member_names = tx[1].enum.member_names
        /\ ret[1].enum.member_map = tx[1].enum.member_map
        /\ ret[1].enum.value2member_map = tx[1].enum.value2member_map

---------------------------------------------------------------------------
(* utils.py: FP, the fixed-point type.  A float given to or returned by an *)
(* FP of format Qm.n is k / 2^n and is held here as the integer k (such    *)
(* values and their products by 2^n are exact in a float for the formats   *)
(* used).  An FP object is [value, is_signed, n_int, n_fract], value being *)
(* its little-endian bytes.                                                *)

\* int.to_bytes(length, "little", signed): the bytes of v, for a v in range
int_to_bytes(v, length, signed) ==
    to_bytes_little(IF v < 0 THEN v + Pow2(8 * length) ELSE v, length)

\* the range outside of which int.to_bytes raises OverflowError
int_fits(v, length, signed) ==
    IF signed
    THEN -Pow2(8 * length - 1) <= v /\ v < Pow2(8 * length - 1)
    ELSE 0 <= v /\ v < Pow2(8 * length)

\* from_float: value > ((1 << self.n_int) - 1), value being k / 2^n_fract
from_float_overflows(k, n_int, n_fract) == k > (Pow2(n_int) - 1) * Pow2(n_fract)

\* FP(value, is_signed, n_int, n_fract) with a float value: __init__ and
\* from_float.  The result is [exc, fp].
FP_init(k, is_signed, n_int, n_fract) ==
    LET nbits == n_int + n_fract + (IF is_signed THEN 1 ELSE 0)
        nbytes == (nbits + 7) \div 8
    IN  IF nbits % 8 # 0
        THEN [exc |-> "ValueError(bits not a multiple of 8)", fp |-> <<>>]
        ELSE IF ~ is_signed /\ k < 0
        THEN [exc |-> "ValueError(negative value for unsigned int)", fp |-> <<>>]
        ELSE IF from_float_overflows(k, n_int, n_fract)
        THEN [exc |-> "ValueError(Overflow error)", fp |-> <<>>]
        ELSE IF ~ int_fits(k, nbytes, is_signed)
        THEN [exc |-> "OverflowError", fp |-> <<>>]
        ELSE [exc |-> "none",
              fp |-> <<[value |-> int_to_bytes(k, nbytes, is_signed),
                        is_signed |-> is_signed, n_int |-> n_int,
                        n_fract |-> n_fract]>>]

\* an as_float that reads the bytes as unsigned whatever the format
FP_as_float_unsigned(fp) == FromBytesLE(fp.value)

\* FP.as_float: the float v / (1 << n_fract), held as v
FP_as_float(fp) ==
    IF fp.is_signed THEN FromBytesSignedLE(fp.value) ELSE FromBytesLE(fp.value)

---------------------------------------------------------------------------
(* SpecFP: FP(v, is_signed, m, n) for a float v = k / 2^n, then as_float. *)

\* formats <<is_signed, n_int, n_fract>>: one or two bytes, and one that is
\* not byte-aligned
FPFormats ==
    {<<FALSE, 8, 0>>, <<FALSE, 4, 4>>, <<FALSE, 0, 8>>, <<FALSE, 8, 8>>,
     <<TRUE, 7, 0>>, <<TRUE, 3, 4>>, <<TRUE, 4, 11>>, <<FALSE, 4, 3>>}

\* the k tried for a format: around 0 and around the ends of its range
FPInputs(f) ==
    LET top == Pow2(f[2] + f[3])
        lim == (Pow2(f[2]) - 1) * Pow2(f[3])
    IN  UNION {(c - 3)..(c + 3) : c \in {-top, 0, lim, top, 2 * top}}

InitFP ==
    /\ msg = <<>> /\ wq = <<>>
    /\ notif_handlers = <<>> /\ data_handlers = <<>>
    /\ pc = "idle" /\ cmds = <<>> /\ res = <<>> /\ written = <<>>
    /\ wqTag = <<>>
    /\ dev = [n \in 1..MaxCmds |-> "no"]
    /\ nRx = 0 /\ reader = "running" /\ rx = NoRx /\ run = <<>>
    /\ invoked = <<>> /\ ret = <<>> /\ obj = <<>>
    /\ buffer = <<>> /\ is_synchronized = FALSE /\ stream = <<>>
    /\ sent = <<>> /\ delivered = <<>>
    /\ \E f \in FPFormats : \E k \in FPInputs(f) :
          tx = <<[op |-> "FP", is_signed |-> f[1], n_int |-> f[2], n_fract |-> f[3],
                  k |-> k]>>

\* FP(v, is_signed, m, n)
FPInit ==
    /\ pc = "idle"
    /\ LET r == FP_init(tx[1].k, tx[1].is_signed, tx[1].n_int, tx[1].n_fract) IN
       /\ obj' = r.fp
       /\ ret' = IF r.exc = "none" THEN ret ELSE <<[exc |-> r.exc, k |-> 0]>>
       /\ pc' = IF r.exc = "none" THEN "built" ELSE "raised"
    /\ UNCHANGED <<clientVars, cmds, res, written, wqTag, dev, readerVars,
                   uartVars, tx>>

\* .as_float()
FPAsFloat ==
    /\ pc = "built"
    /\ ret' = <<[exc |-> "none", k |-> FP_as_float(obj[1])]>>
    /\ pc' = "done"
    /\ UNCHANGED <<clientVars, cmds, res, written, wqTag, dev, readerVars,
                   uartVars, tx, obj>>

NextFP == FPInit \/ FPAsFloat

SpecFP == InitFP /\ [][NextFP]_vars

---------------------------------------------------------------------------
(* Claims checked under SpecFP *)

ByteAligned ==
    (tx[1].n_int + tx[1].n_fract + (IF tx[1].is_signed THEN 1 ELSE 0)) % 8 = 0

\* 2^m as a k: the first magnitude the format Qm.n does not hold
FPTop == Pow2(tx[1].n_int + tx[1].n_fract)

\* v = k / 2^n is a value of the format: 0 <= v < 2^m, or |v| < 2^m signed
Representable ==
    IF tx[1].is_signed THEN -FPTop < tx[1].k /\ tx[1].k < FPTop
    ELSE 0 <= tx[1].k /\ tx[1].k < FPTop

\* C19 (as claimed): in a byte-aligned format, every representable value
\* comes back from FP(v).as_float() unchanged; a negative value for an
\* unsigned format raises, and so does a value with |v| >= 2^m for a signed
\* one.
CE_C19 ==
    (ByteAligned /\ pc \in {"done", "raised"}) =>
        /\ Representable => pc = "done" /\ ret[1].k = tx[1].k
        /\ (~ tx[1].is_signed /\ tx[1].k < 0) => pc = "raised"
        /\ (tx[1].is_signed /\ (tx[1].k >= FPTop \/ tx[1].k <= -FPTop)) => pc = "raised"

---------------------------------------------------------------------------
(* utils.py: Buffer, a cursor over bytes.  A Buffer object b is            *)
(* [buffer, i].  The result of an operation is [exc, v, i]: what it raised *)
(* ("none" if nothing), what it returned, and the cursor it leaves.        *)

\* s[a:b] with the indices Python allows: a negative one counts from the end
PyIndex(s, a) ==
    IF a < 0 THEN (IF Len(s) + a < 0 THEN 0 ELSE Len(s) + a)
    ELSE IF a > Len(s) THEN Len(s) ELSE a

PySlice(s, a, b) == SubSeq(s, PyIndex(s, a) + 1, PyIndex(s, b))

\* Buffer.remaining_size
remaining_size(b) == Len(b.buffer) - b.i

\* a test that also refuses to pop all that remains
pop_underflows_strict(n, remaining) == n >= remaining

\* pop: n > len(self.buffer) - self.i
pop_underflows(n, remaining) == n > remaining

\* Buffer.pop(n)
Buffer_pop(b, n) ==
    IF n = 0 THEN [exc |-> "none", v |-> <<>>, i |-> b.i]
    ELSE LET m == IF n = -1 THEN Len(b.buffer) - b.i ELSE n
         IN  IF pop_underflows(m, Len(b.buffer) - b.i)
             THEN [exc |-> "ValueError", v |-> <<>>, i |-> b.i]
             ELSE [exc |-> "none", v |-> PySlice(b.buffer, b.i, b.i + m),
                   i |-> b.i + m]

\* Buffer.pop_uint(n)
Buffer_pop_uint(b, n) ==
    LET r == Buffer_pop(b, n)
    IN  IF r.exc # "none" THEN [r EXCEPT !.v = 0] ELSE [r EXCEPT !.v = FromBytesLE(@)]

\* Buffer.pop_int(n)
Buffer_pop_int(b, n) ==
    LET r == Buffer_pop(b, n)
    IN  IF r.exc # "none" THEN [r EXCEPT !.v = 0]
        ELSE [r EXCEPT !.v = FromBytesSignedLE(@)]

\* bytes(reversed(v))
Reversed(v) == [j \in 1..Len(v) |-> v[Len(v) + 1 - j]]

\* Buffer.pop_reverse(n)
Buffer_pop_reverse(b, n) ==
    LET r == Buffer_pop(b, n)
    IN  IF r.exc # "none" THEN r ELSE [r EXCEPT !.v = Reversed(@)]

---------------------------------------------------------------------------
(* SpecBuffer: a Buffer over up to MaxBufLen bytes, popped again and again *)

\* contents: 1, 2, 3, ... or 255, 254, 253, ...
BufferContents ==
    {Ramp(len) : len \in 0..MaxBufLen}
    \cup {[j \in 1..len |-> 256 - j] : len \in 1..MaxBufLen}

\* the n given to pop and pop_reverse, and the widths given to pop_uint and
\* pop_int
PopSizes == -1..(MaxBufLen + 1)
IntWidths == {0, 1, 2, 3}

InitBuffer ==
    /\ msg = <<>> /\ wq = <<>>
    /\ notif_handlers = <<>> /\ data_handlers = <<>>
    /\ pc = "idle" /\ cmds = <<>> /\ res = <<>> /\ written = <<>>
    /\ wqTag = <<>>
    /\ dev = [n \in 1..MaxCmds |-> "no"]
    /\ nRx = 0 /\ reader = "running" /\ rx = NoRx /\ run = <<>>
    /\ invoked = <<>> /\ ret = <<>>
    /\ buffer = <<>> /\ is_synchronized = FALSE /\ stream = <<>>
    /\ sent = <<>> /\ delivered = <<>> /\ tx = <<>>
    /\ \E value \in BufferContents : obj = <<[buffer |-> value, i |-> 0]>>

\* what a call leaves in ret: the outcome r of op(n), with the cursor the
\* call found
Outcome(op, n, r) ==
    <<[op |-> op, n |-> n, pre |-> obj[1].i, exc |-> r.exc, v |-> r.v]>>

Pop(n) ==
    /\ obj' = <<[obj[1] EXCEPT !.i = Buffer_pop(obj[1], n).i]>>
    /\ ret' = Outcome("pop", n, Buffer_pop(obj[1], n))
    /\ UNCHANGED <<clientVars, callerVars, readerVars, uartVars, tx>>

PopUint(n) ==
    /\ obj' = <<[obj[1] EXCEPT !.i = Buffer_pop_uint(obj[1], n).i]>>
    /\ ret' = Outcome("pop_uint", n, Buffer_pop_uint(obj[1], n))
    /\ UNCHANGED <<clientVars, callerVars, readerVars, uartVars, tx>>

PopInt(n) ==
    /\ obj' = <<[obj[1] EXCEPT !.i = Buffer_pop_int(obj[1], n).i]>>
    /\ ret' = Outcome("pop_int", n, Buffer_pop_int(obj[1], n))
    /\ UNCHANGED <<clientVars, callerVars, readerVars, uartVars, tx>>

PopReverse(n) ==
    /\ obj' = <<[obj[1] EXCEPT !.i = Buffer_pop_reverse(obj[1], n).i]>>
    /\ ret' = Outcome("pop_reverse", n, Buffer_pop_reverse(obj[1], n))
    /\ UNCHANGED <<clientVars, callerVars, readerVars, uartVars, tx>>

NextBuffer ==
    \/ \E n \in PopSizes : Pop(n)
    \/ \E n \in IntWidths : PopUint(n)
    \/ \E n \in IntWidths : PopInt(n)
    \/ \E n \in PopSizes : PopReverse(n)

SpecBuffer == InitBuffer /\ [][NextBuffer]_vars

---------------------------------------------------------------------------
(* Claims checked under SpecBuffer *)

\* the n bytes after the cursor the last call found
NextBytes(n) == SubSeq(obj[1].buffer, ret[1].pre + 1, ret[1].pre + n)

\* what the last call is to return for the bytes bs
ReadAs(op, bs) ==
    IF op = "pop" THEN bs
    ELSE IF op = "pop_reverse" THEN [j \in 1..Len(bs) |-> bs[Len(bs) + 1 - j]]
    ELSE IF op = "pop_uint" THEN FromBytesLE(bs)
    ELSE IF bs # <<>> /\ bs[Len(bs)] >= 128 THEN FromBytesLE(bs) - Pow2(8 * Len(bs))
    ELSE FromBytesLE(bs)

\* C20: pop(n) with n greater than the remaining size fails with the
\* underflow error (ValueError) and leaves the cursor where it was; with
\* 0 <= n <= remaining it returns the next n bytes and advances the cursor
\* by exactly n; pop(-1) returns all remaining bytes and leaves
\* remaining_size() = 0; pop_uint, pop_int and pop_reverse do the same,
\* reading through pop.
TH_C20 ==
    ret # <<>> =>
        LET r == ret[1]
            remaining == Len(obj[1].buffer) - r.pre
        IN  /\ r.n > remaining => r.exc = "ValueError" /\ obj[1].i = r.pre
            /\ (0 <= r.n /\ r.n <= remaining) =>
                  /\ r.exc = "none"
                  /\ r.v = ReadAs(r.op, NextBytes(r.n))
                  /\ obj[1].i = r.pre + r.n
            /\ r.n = -1 =>
                  /\ r.exc = "none"
                  /\ r.v = ReadAs(r.op, NextBytes(remaining))
                  /\ remaining_size(obj[1]) = 0

\* after part of the buffer was popped, a pop of more than what remains
\* failed
W_C20 ==
    /\ ret # <<>>
    /\ ret[1].pre > 0
    /\ ret[1].n > Len(obj[1].buffer) - ret[1].pre
    /\ ret[1].exc = "ValueError"
    /\ obj[1].i = ret[1].pre

---------------------------------------------------------------------------
(* fira.py: the session calls of Client_extension.  The client object is   *)
(* [data_handler]: the keys of self.data_handler, DefaultDpf for           *)
(* "default".  A call sends its command and blocks in command(); when the  *)
(* response is there it decodes it and returns.  The outcome of a call is  *)
(* [fn, exc, v].                                                           *)

Gid_Session == 1
OidSession_Init == 0
OidSession_Deinit == 1
OidSession_UpdateMulticastList == 7

\* fira_enums.py
MulticastControleeStatus ==
    EnumClass("MulticastControleeStatus",
              <<<<"Ok", 0>>, <<"ListFull", 1>>, <<"KeyFetchFailure", 2>>,
                <<"SubSectionIDNotFound", 3>>, <<"SubDectionKeyNotFound", 4>>,
                <<"SubDectionKeyNotApplicable", 5>>, <<"SessionKeyNotFound", 6>>,
                <<"AddressNotFound", 7>>, <<"AddressAlreadyPresent", 8>>,
                <<"Unknown", -1>>>>)

\* Status((int).from_bytes(payload[0:1], "little"))
StatusOf(payload) == enum_call(Status, FromBytesLE(Slice(payload, 0, 1))).member[1]

\* fira_msg.SessionData(payload): status and session_handle; a short
\* payload leaves "na" and None
SessionData(payload) ==
    LET b  == [buffer |-> payload, i |-> 0]
        r1 == Buffer_pop_uint(b, 1)
        r2 == Buffer_pop_uint([b EXCEPT !.i = r1.i], 4)
    IN  IF r1.exc # "none"
        THEN [status |-> Member("str", "na", 0), session_handle |-> <<>>]
        ELSE [status |-> enum_call(Status, r1.v).member[1],
              session_handle |-> IF r2.exc # "none" THEN <<>> ELSE <<r2.v>>]

\* fira_msg.UpdateMulticastListResp: the for loop from its i-th round on
RECURSIVE UpdateMulticastListResp_loop(_, _, _, _)
UpdateMulticastListResp_loop(b, count, i, controlees) ==
    IF i = count THEN controlees
    ELSE LET r1 == Buffer_pop_uint(b, 2)
             r2 == Buffer_pop_uint([b EXCEPT !.i = r1.i], 1)
         IN  IF r1.exc # "none" \/ r2.exc # "none" THEN controlees
             ELSE UpdateMulticastListResp_loop(
                      [b EXCEPT !.i = r2.i], count, i + 1,
                      Append(controlees,
                             <<r1.v, enum_call(MulticastControleeStatus, r2.v).member[1]>>))

\* fira_msg.UpdateMulticastListResp(payload): status stays unset (None
\* here) when the payload is empty
UpdateMulticastListResp(payload) ==
    LET b  == [buffer |-> payload, i |-> 0]
        r1 == Buffer_pop_uint(b, 1)
        r2 == Buffer_pop_uint([b EXCEPT !.i = r1.i], 1)
        controlees ==
            IF r1.exc # "none" \/ r2.exc # "none" THEN <<>>
            ELSE UpdateMulticastListResp_loop([b EXCEPT !.i = r2.i], r2.v, 0, <<>>)
    IN  [status |-> IF r1.exc # "none" THEN <<>>
                    ELSE <<enum_call(Status, r1.v).member[1]>>,
         controlees |-> controlees,
         count |-> Len(controlees)]

\* a length test that lets a list with one element too many through
controlee_list_bad_one_short(len) == len % 3 = 2

\* session_update_multicast_list: (n_controlee * 3) != len(controlee_list)
controlee_list_bad(len) == (len \div 3) * 3 # len

\* an element of controlee_list: an int or a byte string
IntElem(n)    == [t |-> "int", v |-> n, bytes |-> <<>>]
BytesElem(bs) == [t |-> "bytes", v |-> 0, bytes |-> bs]

\* (ssk != 0) and (ssk != b"")
ssk_given(ssk) ==
    IF ssk.t = "int" THEN ssk.v # 0 ELSE ssk.bytes # <<>>

\* session_update_multicast_list: the for loop from controlee i on.  An
\* int that does not fit its field is OverflowError, bytes have no
\* to_bytes (AttributeError), and a non-zero int cannot be added as a key
\* (TypeError).
RECURSIVE multicast_payload_loop(_, _, _)
multicast_payload_loop(controlee_list, n_controlee, i) ==
    IF i = n_controlee THEN [exc |-> "none", bytes |-> <<>>]
    ELSE LET mac  == controlee_list[3 * i + 1]
             ssid == controlee_list[3 * i + 2]
             ssk  == controlee_list[3 * i + 3]
             rest == multicast_payload_loop(controlee_list, n_controlee, i + 1)
         IN  IF mac.t # "int" \/ ssid.t # "int" THEN [exc |-> "AttributeError", bytes |-> <<>>]
             ELSE IF ~ fits(mac.v, 2) \/ ~ fits(ssid.v, 4)
             THEN [exc |-> "OverflowError", bytes |-> <<>>]
             ELSE IF ssk_given(ssk) /\ ssk.t = "int"
             THEN [exc |-> "TypeError", bytes |-> <<>>]
             ELSE IF rest.exc # "none" THEN rest
             ELSE [exc |-> "none",
                   bytes |-> to_bytes_little(mac.v, 2) \o to_bytes_little(ssid.v, 4)
                             \o (IF ssk_given(ssk) THEN ssk.bytes ELSE <<>>)
                             \o rest.bytes]

\* session_update_multicast_list, up to the command: the exception raised
\* before anything is sent, or the payload
multicast_payload(sid, action, controlee_list) ==
    LET n_controlee == Len(controlee_list) \div 3
        body == multicast_payload_loop(controlee_list, n_controlee, 0)
    IN  IF controlee_list_bad(Len(controlee_list))
        THEN [exc |-> "SyntaxError", bytes |-> <<>>]
        ELSE IF ~ fits(n_controlee, 1) THEN [exc |-> "OverflowError", bytes |-> <<>>]
        ELSE IF body.exc # "none" THEN body
        ELSE [exc |-> "none",
              bytes |-> to_bytes_little(sid, 4) \o to_bytes_little(action, 1)
                        \o to_bytes_little(n_controlee, 1) \o body.bytes]

\* what a session call returns for the payload command() gave it
session_return(fn, payload) ==
    IF fn = "session_init"
    THEN [exc |-> "none", v |-> SessionData(payload)]
    ELSE IF fn = "session_deinit"
    THEN [exc |-> "none", v |-> StatusOf(payload)]
    ELSE LET rtv == UpdateMulticastListResp(payload)
         IN  IF rtv.status = <<>>
             THEN [exc |-> "AttributeError", v |-> rtv]
             ELSE [exc |-> "none", v |-> rtv]

---------------------------------------------------------------------------
(* SpecSession: up to MaxCalls session calls, one at a time, on a client   *)
(* whose device answers the outstanding command or lets it time out.       *)
(* Here written is what the last call wrote, cmds its command, res        *)
(* whether each finished call returned or raised, tx the last call made   *)
(* and ret, once the call is over, [fn, exc, v, payload]: what it raised, *)
(* what it returned, and the payload command() gave it.                    *)

SessionIds == {7, 42}

\* two controlees: without a key, and with one of 16 bytes
ControleeA == <<IntElem(4660), IntElem(1), IntElem(0)>>
ControleeB == <<IntElem(65535), IntElem(16909060), BytesElem(Fill(16, 170))>>

RECURSIVE FlattenLists(_)
FlattenLists(ls) == IF ls = <<>> THEN <<>> ELSE Head(ls) \o FlattenLists(Tail(ls))

\* the lists given: up to MaxControlees controlees, whole or cut short
ControleeLists ==
    LET whole == {FlattenLists(cs) : cs \in SeqsUpTo({ControleeA, ControleeB}, MaxControlees)}
    IN  UNION {{SubSeq(l, 1, n) : n \in 0..Len(l)} : l \in whole}

\* what the device answers with
ResponsePayloads == {<<>>, <<0>>, <<1>>, <<0, 9, 0, 0, 0>>, <<0, 1, 52, 18, 8>>}

InitSession ==
    /\ msg = <<>> /\ wq = <<>>
    /\ notif_handlers = <<{DefaultKey}>> /\ data_handlers = <<>>
    /\ pc = "idle" /\ cmds = <<>> /\ res = <<>> /\ written = <<>>
    /\ wqTag = <<>>
    /\ dev = [n \in 1..MaxCmds |-> "no"]
    /\ nRx = 0 /\ reader = "running" /\ rx = NoRx /\ run = <<>>
    /\ invoked = <<>> /\ ret = <<>>
    /\ InitOther
    /\ obj = <<[data_handler |-> {DefaultDpf}]>>

\* the call as kept in tx; had: sid was a key of data_handler when the
\* call was made
SessionCall(fn, sid, controlee_list) ==
    <<[fn |-> fn, sid |-> sid, controlee_list |-> controlee_list,
       had |-> sid \in obj[1].data_handler]>>

\* self.command(gid, oid, payload) up to wq.get
SessionCommand(gid, oid, payload) ==
    LET s == send_message(MT_Command, gid, oid, payload) IN
    /\ written' = s.packets
    /\ cmds' = <<[gid |-> gid, oid |-> oid, payload |-> payload]>>
    /\ pc' = "waiting"
    /\ ret' = <<>>
    /\ UNCHANGED res

\* the call raised before it sent anything
SessionRaise(fn, exc) ==
    /\ written' = <<>>
    /\ cmds' = <<>>
    /\ ret' = <<[fn |-> fn, exc |-> exc, v |-> <<>>, payload |-> <<>>]>>
    /\ res' = Append(res, "raised")
    /\ UNCHANGED pc

\* session_init(sid, stype, data_handler)
SessionInit(sid, stype, data_handler) ==
    /\ pc = "idle" /\ Len(res) < MaxCalls
    /\ tx' = SessionCall("session_init", sid, <<>>)
    /\ obj' = IF data_handler
              THEN <<[obj[1] EXCEPT !.data_handler = @ \cup {sid}]>>
              ELSE obj
    /\ SessionCommand(Gid_Session, OidSession_Init,
                      to_bytes_little(sid, 4) \o to_bytes_little(stype, 1))
    /\ UNCHANGED <<clientVars, wqTag, dev, readerVars, uartVars>>

\* session_deinit(sid): self.handler is no attribute of the client
SessionDeinit(sid) ==
    /\ pc = "idle" /\ Len(res) < MaxCalls
    /\ tx' = SessionCall("session_deinit", sid, <<>>)
    /\ IF sid \in obj[1].data_handler
       THEN SessionRaise("session_deinit", "AttributeError")
       ELSE SessionCommand(Gid_Session, 1, to_bytes_little(sid, 4))
    /\ UNCHANGED <<clientVars, wqTag, dev, readerVars, uartVars, obj>>

\* session_update_multicast_list(sid, action, controlee_list)
SessionUpdateMulticastList(sid, action, controlee_list) ==
    /\ pc = "idle" /\ Len(res) < MaxCalls
    /\ tx' = SessionCall("session_update_multicast_list", sid, controlee_list)
    /\ LET p == multicast_payload(sid, action, controlee_list) IN
       IF p.exc # "none"
       THEN SessionRaise("session_update_multicast_list", p.exc)
       ELSE SessionCommand(Gid_Session, OidSession_UpdateMulticastList, p.bytes)
    /\ UNCHANGED <<clientVars, wqTag, dev, readerVars, uartVars, obj>>

\* the device answers the outstanding command; the reader thread receives
\* the response
SessionRespond(payload) ==
    /\ pc = "waiting" /\ wq = <<>> /\ reader = "running"
    /\ LET c == Client_data_received(
                    ClientValue,
                    WirePacket(MT_Response, PBF_Final, cmds[1].gid, cmds[1].oid, payload),
                    FALSE)
       IN  /\ msg' = c.msg
           /\ wq' = c.wq
           /\ reader' = reader_after(c.exc)
    /\ UNCHANGED <<notif_handlers, data_handlers, callerVars, nRx, rx, run, invoked,
                   uartVars, tx, ret, obj>>

\* wq.get returns: command() returns the payload or raises, and the call
\* decodes what it got
SessionReturn ==
    /\ pc = "waiting" /\ wq # <<>>
    /\ LET i == wq_get_index(wq)
           r == command_result(cmds[1].gid, cmds[1].oid, wq[i])
           v == session_return(tx[1].fn, r.ret[1])
       IN  /\ ret' = IF r.kind # "ok"
                     THEN <<[fn |-> tx[1].fn, exc |-> r.kind, v |-> <<>>,
                             payload |-> <<>>]>>
                     ELSE <<[fn |-> tx[1].fn, exc |-> v.exc, v |-> v.v,
                             payload |-> r.ret[1]]>>
           /\ res' = Append(res, IF ret'[1].exc = "none" THEN "returned" ELSE "raised")
           /\ wq' = RemoveAt(wq, i)
    /\ pc' = "idle"
    /\ UNCHANGED <<msg, notif_handlers, data_handlers, cmds, written, wqTag, dev,
                   readerVars, uartVars, tx, obj>>

\* wq.get gives up: command() raises UciComError(TimeoutError)
SessionTimeout ==
    /\ pc = "waiting" /\ wq = <<>>
    /\ ret' = <<[fn |-> tx[1].fn, exc |-> "TimeoutError", v |-> <<>>,
                  payload |-> <<>>]>>
    /\ res' = Append(res, "raised")
    /\ pc' = "idle"
    /\ UNCHANGED <<clientVars, cmds, written, wqTag, dev, readerVars, uartVars,
                   tx, obj>>

NextSession ==
    \/ \E sid \in SessionIds, data_handler \in BOOLEAN : SessionInit(sid, 0, data_handler)
    \/ \E sid \in SessionIds : SessionDeinit(sid)
    \/ \E sid \in SessionIds, l \in ControleeLists : SessionUpdateMulticastList(sid, 0, l)
    \/ \E payload \in ResponsePayloads : SessionRespond(payload)
    \/ SessionReturn
    \/ SessionTimeout

SpecSession == InitSession /\ [][NextSession]_vars

---------------------------------------------------------------------------
(* Claims checked under SpecSession *)

\* the last call was fn and it is over
CallOver(fn) == tx # <<>> /\ tx[1].fn = fn /\ pc = "idle"

\* C21 (as claimed): once session_init has registered a data handler for
\* sid, session_deinit(sid) removes the handler kept for sid, sends the
\* SESSION_DEINIT command and returns the Status of its response.
CE_C21 ==
    (CallOver("session_deinit") /\ tx[1].had) =>
        /\ tx[1].sid \notin obj[1].data_handler
        /\ written = <<send_packet(MT_Command, Gid_Session, OidSession_Deinit, PBF_Final,
                                   to_bytes_little(tx[1].sid, 4))>>
        /\ ret[1].exc \in {"none", "TimeoutError"}
        /\ ret[1].exc = "none" => ret[1].v = StatusOf(ret[1].payload)

\* controlee i of the list l (from 0), as it is to appear in the payload:
\* the short address on 2 bytes, the sub-session id on 4, the key if any
ClaimedEntry(l, i) ==
    LittleEndian(l[3 * i + 1].v, 2) \o LittleEndian(l[3 * i + 2].v, 4)
    \o l[3 * i + 3].bytes

RECURSIVE ClaimedEntries(_, _)
ClaimedEntries(l, i) ==
    IF 3 * i >= Len(l) THEN <<>>
    ELSE ClaimedEntry(l, i) \o ClaimedEntries(l, i + 1)

\* C23: session_update_multicast_list(sid, action, controlees) with
\* len(controlees) not a multiple of 3 raises SyntaxError and writes no
\* packet to the transport; with a multiple of 3 it sends one command,
\* SESSION_UPDATE_CONTROLLER_MULTICAST_LIST, whose payload carries the
\* session id, the action, the count len(controlees)/3 and that many
\* controlee entries.
TH_C23 ==
    (tx # <<>> /\ tx[1].fn = "session_update_multicast_list") =>
        LET l == tx[1].controlee_list IN
        /\ Len(l) % 3 # 0 =>
              /\ pc = "idle"
              /\ ret[1].fn = "session_update_multicast_list"
              /\ ret[1].exc = "SyntaxError"
              /\ written = <<>>
        /\ Len(l) % 3 = 0 =>
              /\ Len(written) = 1
              /\ written[1] =
                    <<MT_Command * 32 + Gid_Session, OidSession_UpdateMulticastList, 0,
                      Len(written[1]) - 4>>
                    \o LittleEndian(tx[1].sid, 4) \o <<0>> \o <<Len(l) \div 3>>
                    \o ClaimedEntries(l, 0)

\* after a call that returned, a call with a list of one controlee and
\* the short address of a second raised SyntaxError and wrote nothing
W_C23 ==
    /\ CallOver("session_update_multicast_list")
    /\ Len(tx[1].controlee_list) = 4
    /\ ret[1].exc = "SyntaxError"
    /\ written = <<>>
    /\ res = <<"returned", "raised">>

---------------------------------------------------------------------------
(* fira_msg.py, qorvo_msg.py: decoders of inbound payloads.  The result of *)
(* a decoder is [exc, v]: what the constructor raised and the fields of    *)
(* the object it built.                                                    *)

\* an enum with the values of the two in-band reasons exchanged
SessionStateChangeReason_swapped ==
    EnumClass("SessionStateChangeReason",
              <<<<"StateChangeWithSessionManagementCommands", 0>>,
                <<"MaxRangingRoundRetryCountReached", 1>>,
                <<"MaxNumberOfMeasurementReached", 2>>,
                <<"SessionSuspendedDueToInbandSignal", 4>>,
                <<"SessionResumedDueToInbandSignal", 3>>,
                <<"SessionStoppedDueToInbandSignal", 5>>,
                <<"ErrorInvalidUlTdoaRandomWindow", 29>>,
                <<"ErrorRdsBusy", 255>>>>)

\* fira_enums.py (of the members from 0x1D on, the first and the last)
SessionStateChangeReason ==
    EnumClass("SessionStateChangeReason",
              <<<<"StateChangeWithSessionManagementCommands", 0>>,
                <<"MaxRangingRoundRetryCountReached", 1>>,
                <<"MaxNumberOfMeasurementReached", 2>>,
                <<"SessionSuspendedDueToInbandSignal", 3>>,
                <<"SessionResumedDueToInbandSignal", 4>>,
                <<"SessionStoppedDueToInbandSignal", 5>>,
                <<"ErrorInvalidUlTdoaRandomWindow", 29>>,
                <<"ErrorRdsBusy", 255>>>>)

\* the cursor of b moved to i
At(b, i) == [b EXCEPT !.i = i]

\* fira_msg.SessionStatus(payload)
SessionStatus(payload) ==
    LET b  == [buffer |-> payload, i |-> 0]
        r1 == Buffer_pop_uint(b, 4)
        r2 == Buffer_pop_uint(At(b, r1.i), 1)
        r3 == Buffer_pop_uint(At(b, r2.i), 1)
        reason == enum_call(SessionStateChangeReason, r3.v)
    IN  IF r1.exc # "none" \/ r2.exc # "none" \/ r3.exc # "none"
        THEN [exc |-> "ValueError", v |-> <<>>]
        ELSE IF reason.exc # "none" THEN [exc |-> reason.exc, v |-> <<>>]
        ELSE [exc |-> "none",
              v |-> <<[session_id |-> r1.v,
                       state |-> enum_call(SessionState, r2.v).member[1],
                       reason |-> reason.member[1],
                       remaining |-> remaining_size(At(b, r3.i))]>>]

\* FP(value, is_signed, n_int, n_fract) with a bytes value: __init__ and
\* from_bytes.  The result is [exc, fp].
FP_from_bytes(value, is_signed, n_int, n_fract) ==
    LET nbits == n_int + n_fract + (IF is_signed THEN 1 ELSE 0)
    IN  IF nbits % 8 # 0 \/ Len(value) * 8 # nbits
        THEN [exc |-> "ValueError", fp |-> <<>>]
        ELSE [exc |-> "none",
              fp |-> <<[value |-> value, is_signed |-> is_signed, n_int |-> n_int,
                        n_fract |-> n_fract]>>]

\* Buffer.pop_float(is_signed, n_int, n_fract): the float returned is the
\* fraction num / den
Buffer_pop_float(b, is_signed, n_int, n_fract) ==
    LET n  == (n_int + n_fract + (IF is_signed THEN 1 ELSE 0)) \div 8
        r  == Buffer_pop(b, n)
        fp == FP_from_bytes(r.v, is_signed, n_int, n_fract)
    IN  IF r.exc # "none" THEN [exc |-> r.exc, v |-> <<>>, i |-> r.i]
        ELSE IF fp.exc # "none" THEN [exc |-> fp.exc, v |-> <<>>, i |-> r.i]
        ELSE [exc |-> "none",
              v |-> [num |-> FP_as_float(fp.fp[1]), den |-> Pow2(n_fract)],
              i |-> r.i]

\* utils.py, qorvo_msg.py
IsTrue == EnumClass("IsTrue", <<<<"no", 0>>, <<"yes", 1>>, <<"Unknown", 255>>>>)

RangingMeas ==
    EnumClass("RangingMeas", <<<<"OwrUltdoa", 0>>, <<"Twr", 1>>, <<"OwrDltdoa", 2>>,
                               <<"OwrAoa", 3>>, <<"Unknown", 255>>>>)

\* F applied to the value of e, e being evaluated once
Bind(e, F(_)) == CHOOSE y \in {F(x) : x \in {e}} : TRUE

\* One statement of a decoder: the attribute assigned ("" for a pop whose
\* result is dropped) and the pop that gives its value.
Field(name, kind, n) == [name |-> name, kind |-> kind, n |-> n]

\* the pop of the statement f on the buffer b: [exc, v, i].  The enums read
\* here have a member Unknown, so that the conversion does not raise.
pop_field(b, f) ==
    IF f.kind = "uint" THEN Buffer_pop_uint(b, f.n)
    ELSE IF f.kind = "reverse" THEN Buffer_pop_reverse(b, f.n)
    ELSE IF f.kind = "Status"
    THEN LET r == Buffer_pop_uint(b, f.n)
         IN  IF r.exc # "none" THEN r
             ELSE [r EXCEPT !.v = enum_call(Status, @).member[1]]
    ELSE IF f.kind = "IsTrue"
    THEN LET r == Buffer_pop_uint(b, f.n)
         IN  IF r.exc # "none" THEN r
             ELSE [r EXCEPT !.v = enum_call(IsTrue, @).member[1]]
    ELSE IF f.kind = "RangingMeas"
    THEN LET r == Buffer_pop_uint(b, f.n)
         IN  IF r.exc # "none" THEN r
             ELSE [r EXCEPT !.v = enum_call(RangingMeas, @).member[1]]
    ELSE IF f.kind = "Q8.7" THEN Buffer_pop_float(b, TRUE, 8, 7)
    ELSE IF f.kind = "-Q7.1"
    THEN LET r == Buffer_pop_float(b, FALSE, 7, 1)
         IN  IF r.exc # "none" THEN r ELSE [r EXCEPT !.v.num = -1 * @]
    ELSE Buffer_pop(b, f.n)

\* the statements fields run in order from the k-th on, on the buffer b:
\* [exc, v, i], v the attributes assigned, by name; the first exception
\* ends the run
RECURSIVE pop_fields(_, _, _, _)
pop_fields(b, fields, k, v) ==
    IF k > Len(fields) THEN [exc |-> "none", v |-> v, i |-> b.i]
    ELSE Bind(pop_field(b, fields[k]),
              LAMBDA r :
                  IF r.exc # "none" THEN [exc |-> r.exc, v |-> v, i |-> b.i]
                  ELSE pop_fields(At(b, r.i), fields, k + 1,
                                  IF fields[k].name = "" THEN v
                                  ELSE (fields[k].name :> r.v) @@ v))

\* RangingTwrData.__init__
RangingTwrData_fields(mac_add_size) ==
    <<Field("mac_add", "reverse", mac_add_size),
      Field("status", "Status", 1),
      Field("nlos", "IsTrue", 1),
      Field("distance", "uint", 2),
      Field("aoa_tetha", "Q8.7", 2),
      Field("aoa_tetha_fom", "uint", 1),
      Field("aoa_phi", "Q8.7", 2),
      Field("aoa_phi_fom", "uint", 1),
      Field("aoa_dest_tetha", "Q8.7", 2),
      Field("aoa_dest_tetha_fom", "uint", 1),
      Field("aoa_dest_phi", "Q8.7", 2),
      Field("aoa_dest_phi_fom", "uint", 1),
      Field("slot_in_error", "uint", 1),
      Field("rssi", "-Q7.1", 1),
      Field("", "pop", IF mac_add_size = 2 THEN 11 ELSE 5)>>

RangingTwrData(b, mac_add_size, meas_n) ==
    pop_fields(b, RangingTwrData_fields(mac_add_size), 1,
               ("mac_add_size" :> mac_add_size) @@ ("meas_n" :> meas_n))

\* RangingData.__init__, up to the number of measurements
RangingData_fields ==
    <<Field("idx", "uint", 4),
      Field("session_handle", "uint", 4),
      Field("", "pop", 1),
      Field("ranging_interval", "uint", 4),
      Field("ranging_meas", "RangingMeas", 1),
      Field("", "pop", 1),
      Field("mac_add_mode", "uint", 1),
      Field("primary_session_id", "uint", 4),
      Field("", "pop", 4),
      Field("n_meas", "uint", 1)>>

\* RangingData.__init__: the for loop from round i on, for measurements of
\* the TWR type (the decoders of the three one-way types are not part of
\* this model)
RECURSIVE RangingData_loop(_, _, _, _, _)
RangingData_loop(b, mac_add_size, n_meas, i, meas) ==
    IF i = n_meas THEN [exc |-> "none", v |-> meas, i |-> b.i]
    ELSE Bind(RangingTwrData(b, mac_add_size, i + 1),
              LAMBDA x :
                  IF x.exc # "none" THEN [exc |-> x.exc, v |-> meas, i |-> b.i]
                  ELSE RangingData_loop(At(b, x.i), mac_add_size, n_meas, i + 1,
                                        Append(meas, x.v)))

\* RangingData.__init__, after the header h was read from the buffer b
RangingData_body(b, h) ==
    IF h.exc # "none" THEN [exc |-> h.exc, v |-> <<>>]
    ELSE LET mac_add_size == IF h.v["mac_add_mode"] = 0 THEN 2 ELSE 8
             n_meas == IF h.v["ranging_meas"].name = "Unknown" THEN 0
                       ELSE h.v["n_meas"]
         IN  Bind(RangingData_loop(At(b, h.i), mac_add_size, n_meas, 0, <<>>),
                  LAMBDA l :
                      IF l.exc # "none" THEN [exc |-> l.exc, v |-> <<>>]
                      ELSE [exc |-> "none",
                            v |-> <<[header |-> h.v, mac_add_size |-> mac_add_size,
                                     n_meas |-> n_meas, meas |-> l.v,
                                     remaining |-> remaining_size(At(b, l.i))]>>])

\* qorvo_msg.RangingData(payload)
RangingData(payload) ==
    Bind(pop_fields([buffer |-> payload, i |-> 0], RangingData_fields, 1, <<>>),
         LAMBDA h : RangingData_body([buffer |-> payload, i |-> 0], h))

---------------------------------------------------------------------------
(* SpecDecode: one inbound payload is given to its decoder.  tx is the     *)
(* class and the payload, ret what the constructor raised or built.        *)

\* SESSION_STATUS payloads: a session id, a state and a reason, and the
\* payload of scenario S4 cut short or with a byte too many
ScenarioS4 == <<42, 0, 0, 0, 2, 4>>

SessionStatusPayloads ==
    {to_bytes_little(sid, 4) \o <<state, reason>> :
        sid \in {7, 42}, state \in {0, 1, 2, 3, 9}, reason \in {0, 3, 4, 5, 6, 29, 255}}
    \cup {SubSeq(ScenarioS4, 1, n) : n \in 0..5}
    \cup {ScenarioS4 \o <<0>>}

\* RANGE_DATA_NTF: the header for n_meas measurements of the type
\* ranging_meas, and a TWR measurement with the given distance and azimuth
\* bytes
RangingHeader(ranging_meas, mac_add_mode, n_meas) ==
    <<1, 0, 0, 0>> \o <<42, 0, 0, 0>> \o <<0>> \o <<200, 0, 0, 0>> \o <<ranging_meas>>
    \o <<0>> \o <<mac_add_mode>> \o <<0, 0, 0, 0>> \o <<0, 0, 0, 0>> \o <<n_meas>>

TwrMeasurement(mac_add_mode, distance, aoa) ==
    (IF mac_add_mode = 0 THEN <<52, 18>> ELSE <<1, 2, 3, 4, 5, 6, 7, 8>>)
    \o <<0, 0>> \o distance \o aoa \o <<100>> \o <<128, 255>> \o <<50>>
    \o <<0, 0, 0>> \o <<0, 0, 0>> \o <<0>> \o <<3>>
    \o Fill(IF mac_add_mode = 0 THEN 11 ELSE 5, 0)

DistanceBytes == {<<100, 0>>, <<0, 1>>, <<255, 255>>}
AoaBytes == {<<0, 64>>, <<128, 255>>, <<0, 128>>, <<255, 127>>}

\* scenario S5: one TWR measurement, distance 64 00, azimuth 00 40
ScenarioS5 == RangingHeader(1, 0, 1) \o TwrMeasurement(0, <<100, 0>>, <<0, 64>>)

\* payloads that hold the measurements they declare
WholeRangingPayloads ==
    {RangingHeader(ranging_meas, 0, 0) : ranging_meas \in {1, 9}}
    \cup {RangingHeader(ranging_meas, mode, 1) \o TwrMeasurement(mode, d, a) :
             ranging_meas \in {1, 9}, mode \in {0, 1}, d \in DistanceBytes, a \in AoaBytes}
    \cup {RangingHeader(1, 0, 2) \o TwrMeasurement(0, d, <<0, 64>>)
          \o TwrMeasurement(0, <<100, 0>>, a) : d \in DistanceBytes, a \in AoaBytes}

\* scenario S5 truncated at every byte offset
TruncatedRangingPayloads == {SubSeq(ScenarioS5, 1, n) : n \in 0..(Len(ScenarioS5) - 1)}

\* bytes after the measurements declared
TrailingRangingPayloads ==
    {ScenarioS5 \o <<0>>, ScenarioS5 \o <<1, 2>>, RangingHeader(1, 0, 0) \o <<9>>}

RangingPayloads ==
    WholeRangingPayloads \cup TruncatedRangingPayloads \cup TrailingRangingPayloads

InitDecode ==
    /\ msg = <<>> /\ wq = <<>>
    /\ notif_handlers = <<>> /\ data_handlers = <<>>
    /\ pc = "idle" /\ cmds = <<>> /\ res = <<>> /\ written = <<>>
    /\ wqTag = <<>>
    /\ dev = [n \in 1..MaxCmds |-> "no"]
    /\ nRx = 0 /\ reader = "running" /\ rx = NoRx /\ run = <<>>
    /\ invoked = <<>> /\ ret = <<>> /\ obj = <<>>
    /\ buffer = <<>> /\ is_synchronized = FALSE /\ stream = <<>>
    /\ sent = <<>> /\ delivered = <<>>
    /\ \/ \E payload \in SessionStatusPayloads :
             tx = <<[op |-> "SessionStatus", payload |-> payload]>>
       \/ \E payload \in RangingPayloads :
             tx = <<[op |-> "RangingData", payload |-> payload]>>

\* SessionStatus(payload)
DecodeSessionStatus ==
    /\ pc = "idle" /\ tx[1].op = "SessionStatus"
    /\ ret' = <<SessionStatus(tx[1].payload)>>
    /\ pc' = "done"
    /\ UNCHANGED <<clientVars, cmds, res, written, wqTag, dev, readerVars,
                   uartVars, tx, obj>>

\* RangingData(payload)
DecodeRangingData ==
    /\ pc = "idle" /\ tx[1].op = "RangingData"
    /\ ret' = <<RangingData(tx[1].payload)>>
    /\ pc' = "done"
    /\ UNCHANGED <<clientVars, cmds, res, written, wqTag, dev, readerVars,
                   uartVars, tx, obj>>

NextDecode == DecodeSessionStatus \/ DecodeRangingData

SpecDecode == InitDecode /\ [][NextDecode]_vars

---------------------------------------------------------------------------
(* Claims checked under SpecDecode *)

\* the decoder op was applied to the payload of tx
Constructed(op) == pc = "done" /\ tx[1].op = op

\* S4 decoded without an exception to the session id, the state and the
\* reason named
DecodesS4(session_id, state, reason) ==
    /\ ret[1].exc = "none"
    /\ ret[1].v[1].session_id = session_id
    /\ ret[1].v[1].state.name = state
    /\ ret[1].v[1].reason.name = reason

\* C22 (as claimed): the SESSION_STATUS notification payload
\* 2A 00 00 00 02 04 decodes to session id 42, state Active and reason
\* SessionSuspendedDueToInbandSignal.
CE_C22 ==
    (Constructed("SessionStatus") /\ tx[1].payload = ScenarioS4) =>
        DecodesS4(42, "Active", "SessionSuspendedDueToInbandSignal")

\* C22 (amended): the SESSION_STATUS notification payload 2A 00 00 00 02 04
\* decodes to session id 42, state Active and reason
\* SessionResumedDueToInbandSignal (the reason of value 4; the reason
\* SessionSuspendedDueToInbandSignal is what 2A 00 00 00 02 03 decodes to).
TH_C22 ==
    /\ (Constructed("SessionStatus") /\ tx[1].payload = ScenarioS4) =>
          DecodesS4(42, "Active", "SessionResumedDueToInbandSignal")
    /\ (Constructed("SessionStatus") /\ tx[1].payload = <<42, 0, 0, 0, 2, 3>>) =>
          DecodesS4(42, "Active", "SessionSuspendedDueToInbandSignal")

\* the payload of S4 was decoded
W_C22 ==
    /\ Constructed("SessionStatus")
    /\ tx[1].payload = ScenarioS4
    /\ ret[1].exc = "none"
    /\ ret[1].v[1].reason.value = 4

\* C24 (as claimed): constructing RangingData from a payload truncated at
\* any byte offset, or with trailing bytes after the declared
\* measurements, does not raise.
CE_C24 ==
    (/\ Constructed("RangingData")
     /\ tx[1].payload \in TruncatedRangingPayloads \cup TrailingRangingPayloads) =>
        ret[1].exc = "none"

\* the measurement i (from 1) of a payload with 2-byte addresses: where
\* its distance and its azimuth are in the payload
DistanceAt(payload, i) == SubSeq(payload, 31 * i - 1, 31 * i)
AzimuthAt(payload, i)  == SubSeq(payload, 31 * i + 1, 31 * i + 2)

\* a 16-bit little-endian pair read as unsigned, and as two's complement
Unsigned16(bs) == bs[1] + 256 * bs[2]
Signed16(bs) == IF bs[2] >= 128 THEN Unsigned16(bs) - 65536 ELSE Unsigned16(bs)

\* C27: in a RANGE_DATA_NTF with one TWR measurement, the distance is its
\* two bytes read as an unsigned 16-bit little-endian integer (cm) and the
\* AoA azimuth is its two bytes read as a signed 16-bit little-endian
\* integer divided by 2^7 (Q8.7, degrees): distance bytes 64 00 decode to
\* 100 and azimuth bytes 00 40 to 128.0.
TH_C27 ==
    (/\ Constructed("RangingData")
     /\ Len(tx[1].payload) = Len(ScenarioS5)
     /\ SubSeq(tx[1].payload, 14, 16) = <<1, 0, 0>>
     /\ tx[1].payload[25] = 1) =>
        /\ ret[1].exc = "none"
        /\ Len(ret[1].v[1].meas) = 1
        /\ LET m == ret[1].v[1].meas[1]
               d == DistanceAt(tx[1].payload, 1)
               a == AzimuthAt(tx[1].payload, 1)
           IN  /\ m["distance"] = Unsigned16(d)
               /\ m["aoa_tetha"].num = Signed16(a)
               /\ m["aoa_tetha"].den = 128
               /\ d = <<100, 0>> => m["distance"] = 100
               /\ a = <<0, 64>> => m["aoa_tetha"].num = 128 * m["aoa_tetha"].den

\* scenario S5 was decoded: distance 100, azimuth 128.0
W_C27 ==
    /\ Constructed("RangingData")
    /\ tx[1].payload = ScenarioS5
    /\ ret[1].exc = "none"
    /\ ret[1].v[1].meas[1]["distance"] = 100
    /\ ret[1].v[1].meas[1]["aoa_tetha"] = [num |-> 16384, den |-> 128]

---------------------------------------------------------------------------
(* fira_msg.py, qorvo_msg.py, qorvo.py, custom.py: uci_codecs, the codec   *)
(* registry, a dict from (MT, GID, OID) to a codec.  A codec is [kind,     *)
(* name]: kind "default" for what default_codec(name) returns, "specific"  *)
(* for a message class.                                                    *)

default_codec(name) == [kind |-> "default", name |-> name]
MessageClass(name)  == [kind |-> "specific", name |-> name]

\* uci_codecs[key] = codec
dict_setitem(d, key, codec) == (key :> codec) @@ d

\* uci_codecs.update(items), items a dict
dict_update(d, items) == items @@ d

\* uci_codecs.pop(key): [exc, d]
dict_pop(d, key) ==
    IF key \notin DOMAIN d THEN [exc |-> "KeyError", d |-> d]
    ELSE [exc |-> "none", d |-> [k \in DOMAIN d \ {key} |-> d[k]]]

---------------------------------------------------------------------------
(* SpecCodecs: the statements that the modules run on uci_codecs after the *)
(* defaults are installed, in any order and number.  tx is the last        *)
(* statement run, ret what it raised.                                      *)

\* (MT, GID, OID) keys: RANGE_DATA_NTF, CORE_DEVICE_RESET_RSP,
\* SESSION_STATUS_NTF
CodecKeys == {<<3, 2, 0>>, <<2, 0, 0>>, <<3, 1, 2>>}

Codecs ==
    {default_codec("raw"), MessageClass("RangingData"), MessageClass("Other")}

\* the dicts given to update: one or two entries
CodecItems ==
    UNION {[ks -> Codecs] : ks \in {x \in SUBSET CodecKeys : Cardinality(x) \in {1, 2}}}

InitCodecs ==
    /\ msg = <<>> /\ wq = <<>>
    /\ notif_handlers = <<>> /\ data_handlers = <<>>
    /\ pc = "idle" /\ cmds = <<>> /\ res = <<>> /\ written = <<>>
    /\ wqTag = <<>>
    /\ dev = [n \in 1..MaxCmds |-> "no"]
    /\ nRx = 0 /\ reader = "running" /\ rx = NoRx /\ run = <<>>
    /\ invoked = <<>> /\ ret = <<>>
    /\ InitOther
    /\ obj = <<[k \in CodecKeys |-> default_codec("raw")]>>

\* uci_codecs[key] = codec
CodecSetItem(key, codec) ==
    /\ obj' = <<dict_setitem(obj[1], key, codec)>>
    /\ tx' = <<[op |-> "setitem", keys |-> {key}]>>
    /\ ret' = <<[exc |-> "none"]>>
    /\ UNCHANGED <<clientVars, callerVars, readerVars, uartVars>>

\* uci_codecs.update(items)
CodecUpdate(items) ==
    /\ obj' = <<dict_update(obj[1], items)>>
    /\ tx' = <<[op |-> "update", keys |-> DOMAIN items]>>
    /\ ret' = <<[exc |-> "none"]>>
    /\ UNCHANGED <<clientVars, callerVars, readerVars, uartVars>>

\* uci_codecs.pop(key)
CodecPop(key) ==
    /\ obj' = <<dict_pop(obj[1], key).d>>
    /\ tx' = <<[op |-> "pop", keys |-> {key}]>>
    /\ ret' = <<[exc |-> dict_pop(obj[1], key).exc]>>
    /\ UNCHANGED <<clientVars, callerVars, readerVars, uartVars>>

NextCodecs ==
    \/ \E key \in CodecKeys, codec \in Codecs : CodecSetItem(key, codec)
    \/ \E items \in CodecItems : CodecUpdate(items)
    \/ \E key \in CodecKeys : CodecPop(key)

SpecCodecs == InitCodecs /\ [][NextCodecs]_vars

---------------------------------------------------------------------------
(* Claims checked under SpecCodecs *)

\* the step registers a codec for the key k (none of the statements takes
\* an override flag)
Registers(k) == tx'[1].op \in {"setitem", "update"} /\ k \in tx'[1].keys

\* C25 (as claimed): once a specific (non-default) codec has been
\* installed for a key (MT, GID, OID), a later registration for the same
\* key without an explicit override does not replace it.
CE_C25 ==
    [][\A k \in CodecKeys :
          (/\ k \in DOMAIN obj[1]
           /\ obj[1][k].kind = "specific"
           /\ Registers(k)) => obj'[1][k] = obj[1][k]]_vars

---------------------------------------------------------------------------
(* uqt_utils/utils.py: uqt_errno, from an internal status to the errno of  *)
(* a script.  Its argument is a member of an enum, an instance of the      *)
(* stand-in class SeErrorCodes (cls "SeErrorCodes"; uci exports no such    *)
(* enum), or a plain integer (cls "int").                                  *)

\* uci/utils.py
UciComStatus ==
    EnumClass("UciComStatus",
              <<<<"Ok", 0>>, <<"UnknownPort", 1>>, <<"UnknownProtocol", 2>>,
                <<"TimeoutError", 3>>, <<"ProtocolError", 4>>, <<"Error", 9>>>>)

\* uqt_errno: the branch of a Status
status_errno(value) ==
    IF value = 0 THEN [exc |-> "none", errno |-> 0]
    ELSE IF 1 <= value /\ value < 254 THEN [exc |-> "none", errno |-> 200 + value]
    ELSE [exc |-> "ValueError", errno |-> 0]

\* uqt_errno(status_code): [exc, errno]
uqt_errno(status_code) ==
    IF status_code.cls = "Status" THEN status_errno(status_code.value)
    ELSE IF status_code.cls = "SeErrorCodes"
    THEN \* the stand-in class has no attribute SE_ERROR_OK
         [exc |-> "AttributeError", errno |-> 0]
    ELSE IF status_code.cls = "UciComStatus"
    THEN IF status_code.value = 0 THEN [exc |-> "none", errno |-> 0]
         ELSE IF 1 <= status_code.value /\ status_code.value <= 9
         THEN [exc |-> "none", errno |-> 150 + status_code.value]
         ELSE [exc |-> "ValueError", errno |-> 0]
    ELSE IF status_code.value > 149 THEN [exc |-> "ValueError", errno |-> 0]
    ELSE [exc |-> "none", errno |-> status_code.value]

---------------------------------------------------------------------------
(* SpecErrno: uqt_errno applied to one status. *)

\* the members of the enum E
Members(E) == {E.member_map[n] : n \in DOMAIN E.member_map}

\* every Status, every UciComStatus, an SeErrorCodes and plain integers
ErrnoInputs ==
    Members(Status) \cup Members(UciComStatus)
    \cup {Member("SeErrorCodes", "SeErrorCodes(4096)", 4096)}
    \cup {Member("int", "", n) : n \in {0, 1, 2, 3, 64, 100, 126, 127, 149, 150, 200, 255}}

InitErrno ==
    /\ msg = <<>> /\ wq = <<>>
    /\ notif_handlers = <<>> /\ data_handlers = <<>>
    /\ pc = "idle" /\ cmds = <<>> /\ res = <<>> /\ written = <<>>
    /\ wqTag = <<>>
    /\ dev = [n \in 1..MaxCmds |-> "no"]
    /\ nRx = 0 /\ reader = "running" /\ rx = NoRx /\ run = <<>>
    /\ invoked = <<>> /\ ret = <<>> /\ obj = <<>>
    /\ buffer = <<>> /\ is_synchronized = FALSE /\ stream = <<>>
    /\ sent = <<>> /\ delivered = <<>>
    /\ \E status_code \in ErrnoInputs : tx = <<status_code>>

\* uqt_errno(status_code)
UqtErrno ==
    /\ pc = "idle"
    /\ ret' = <<uqt_errno(tx[1])>>
    /\ pc' = "done"
    /\ UNCHANGED <<clientVars, cmds, res, written, wqTag, dev, readerVars,
                   uartVars, tx, obj>>

NextErrno == UqtErrno

SpecErrno == InitErrno /\ [][NextErrno]_vars

---------------------------------------------------------------------------
(* Claims checked under SpecErrno *)

\* C26 (as claimed): for every Status and every UciComStatus value,
\* uqt_errno either raises or returns an integer that fits the documented
\* single-byte ranges: 0 for Ok, 150 + code in 150..159 for transport
\* errors, and 200 + status byte in 200..254 for UCI Status codes; it never
\* returns a value above 254.
CE_C26 ==
    (pc = "done" /\ tx[1].cls \in {"Status", "UciComStatus"} /\ ret[1].exc = "none") =>
        /\ ret[1].errno <= 254
        /\ IF tx[1].name = "Ok" THEN ret[1].errno = 0
           ELSE IF tx[1].cls = "UciComStatus"
           THEN ret[1].errno = 150 + tx[1].value /\ ret[1].errno \in 150..159
           ELSE ret[1].errno = 200 + tx[1].value /\ ret[1].errno \in 200..254

---------------------------------------------------------------------------
(* uqt_utils/utils.py, qorvo_msg.py: the WGS-84 location of a DT-Anchor.   *)
(* Integers wider than 31 bits are held as what the code turns them into:  *)
(* strings of bits (sequences of 0 and 1, first character first) and byte  *)
(* strings.  A latitude or longitude is [w, f, r]: the float               *)
(* w + (f + r/3) / 2^24 with 0 <= f < 2^24 and r in -1..1, r = 0 for a     *)
(* value of the Q9.24 grid.  An altitude is [k, r]: (k + r/3) / 2^21.      *)

\* format(b, "08b")
BitsOfByte(b) == [i \in 1..8 |-> (b \div Pow2(8 - i)) % 2]

\* format(int(bs.hex(), 16), "0<8 len(bs)>b")
RECURSIVE BitsOf(_)
BitsOf(bs) == IF bs = <<>> THEN <<>> ELSE BitsOfByte(Head(bs)) \o BitsOf(Tail(bs))

\* int(bits, 2) for at most 8 bits
RECURSIVE IntOfBits(_)
IntOfBits(bits) ==
    IF bits = <<>> THEN 0
    ELSE 2 * IntOfBits(SubSeq(bits, 1, Len(bits) - 1)) + bits[Len(bits)]

\* int(bits, 2).to_bytes(len(bits) / 8, "big")
RECURSIVE BytesOf(_)
BytesOf(bits) ==
    IF bits = <<>> THEN <<>>
    ELSE <<IntOfBits(SubSeq(bits, 1, 8))>> \o BytesOf(SubSeq(bits, 9, Len(bits)))

\* bits[a:b]
BitSlice(bits, a, b) == SubSeq(bits, a + 1, b)

\* coord > n and coord < n for a coordinate [w, f, r] and an integer n
CoordGreater(c, n) == c.w > n \/ (c.w = n /\ (c.f > 0 \/ c.r > 0))
CoordLess(c, n)    == c.w < n \/ (c.w = n /\ c.f = 0 /\ c.r < 0)

\* FP(coord, is_signed=True, n_int=8, n_fract=24, ignore_nbits_error=True)
\* .to_bytes(length=-1, byteorder="little"): round(coord * 2^24) is
\* w * 2^24 + f, on 5 bytes, signed
FP_Q24_to_bytes(c) == to_bytes_little(c.f, 3) \o int_to_bytes(c.w, 2, TRUE)

\* format(((1 << 32) - 1) & alt, "032b")
Format032b(alt) ==
    IF alt >= 0 THEN BitsOf(Reversed(to_bytes_little(alt, 4)))
    ELSE LET low == to_bytes_little((alt + 2147483647) + 1, 4)
         IN  BitsOf(Reversed(SubSeq(low, 1, 3) \o <<low[4] + 128>>))

\* compute_dl_tdoa_anchor_location_value, presence 1 and coord_type 0.
\* The result is [exc, value, defs]: value the 13 bytes of the integer
\* returned, most significant first (sys.byteorder being "little"), defs
\* the entries of App.defs for the parameter once the call is over.
compute_dl_tdoa_anchor_location_value(presence, coord_type, coord_x, coord_y, coord_z) ==
    IF presence = 0
    THEN [exc |-> "none", value |-> Fill(13, 0),
          defs |-> <<[tag |-> "DlTdoaAnchorLocation", length |-> 1]>>]
    ELSE IF \/ CoordGreater(coord_x, 90) \/ CoordLess(coord_x, -90)
            \/ CoordGreater(coord_y, 180) \/ CoordLess(coord_y, -180)
            \/ coord_z.k > 255 * Pow2(21)
            \/ (coord_z.k = 255 * Pow2(21) /\ coord_z.r > 0)
            \/ coord_z.k < -256 * Pow2(21)
            \/ (coord_z.k = -256 * Pow2(21) /\ coord_z.r < 0)
    THEN [exc |-> "ValueError", value |-> <<>>, defs |-> <<>>]
    ELSE LET byte_0  == presence + 2 * coord_type
             by_lat  == FP_Q24_to_bytes(coord_x)
             by_long == FP_Q24_to_bytes(coord_y)
             alt     == coord_z.k
             b_alt0  == Format032b(alt)
             b_alt   == BitSlice(b_alt0, 24, 32) \o BitSlice(b_alt0, 16, 24)
                        \o BitSlice(b_alt0, 8, 16) \o BitSlice(b_alt0, 2, 8)
             b_type  == BitsOfByte(byte_0)
             b_lat   == BitsOf(by_lat)
             b_long  == BitsOf(by_long)
             b_all   == b_type \o BitSlice(b_lat, 0, 33) \o BitSlice(b_long, 0, 33)
                        \o b_alt
             by_all  == Reversed(BytesOf(b_all))
         IN  [exc |-> "none", value |-> by_all,
              defs |-> <<[tag |-> "DlTdoaAnchorLocation", length |-> 13]>>]

\* int.from_bytes(s, "little", signed=True) for 4 bytes
FromBytesSigned32LE(s) ==
    IF s[4] >= 128
    THEN (FromBytesLE(SubSeq(s, 1, 3) \o <<s[4] - 128>>) - 2147483647) - 1
    ELSE FromBytesLE(s)

\* an extension that takes every altitude for a positive one
alt_prefix_zero(alt_str) == <<0, 0>>

\* alt_prefix = "11" if alt_str[24] == "1" else "00"
alt_prefix(alt_str) == IF alt_str[25] = 1 THEN <<1, 1>> ELSE <<0, 0>>

\* FP(value, True, 8, 24, True, "big").as_float() for the integer whose 40
\* bits are given: [w, f, r]
FP_Q24_as_float(bits) ==
    LET value == BytesOf(bits)
    IN  [w |-> FromBytesSignedLE(SubSeq(value, 4, 5)),
         f |-> FromBytesLE(SubSeq(value, 1, 3)), r |-> 0]

\* DlTdoaAnchorLocation("WGS-84", buf): [exc, v, i]
DlTdoaAnchorLocation(buf) ==
    LET p == Buffer_pop(buf, 12)
        value_bin_str == BitsOf(p.v)
        sign7(bit) == [i \in 1..7 |-> bit]
        latitude  == BitSlice(value_bin_str, 0, 33) \o sign7(value_bin_str[33])
        longitude == BitSlice(value_bin_str, 33, 66) \o sign7(value_bin_str[66])
        alt_str0  == BitSlice(value_bin_str, 66, 96)
        alt_str   == alt_prefix(alt_str0) \o BitSlice(alt_str0, 24, 30)
                     \o BitSlice(alt_str0, 16, 24) \o BitSlice(alt_str0, 8, 16)
                     \o BitSlice(alt_str0, 0, 8)
    IN  IF p.exc # "none" THEN [exc |-> p.exc, v |-> <<>>, i |-> p.i]
        ELSE [exc |-> "none",
              v |-> <<[type |-> "WGS-84",
                       latitude |-> FP_Q24_as_float(latitude),
                       longitude |-> FP_Q24_as_float(longitude),
                       altitude |-> [k |-> FromBytesSigned32LE(Reversed(BytesOf(alt_str))),
                                     r |-> 0]]>>,
              i |-> p.i]

---------------------------------------------------------------------------
(* SpecAnchor: a location is encoded, then its 12 location bytes decoded   *)

\* 2^24 - 1, the largest fractional part of a Q9.24 value
Q24FracMax == Pow2(24) - 1

\* fractional parts: none, one unit, a half, one unit short of the next degree
Q24Fracs == {0, 1, 8388608, Q24FracMax}

\* whole degrees of latitude and of longitude, the out-of-range ones included
LatWholes == {-91, -90, -46, -1, 0, 89, 90}
LonWholes == {-181, -180, -129, -1, 0, 128, 180}

\* the distance of the float to the value it rounds to, in thirds of a unit
Remainders == {-1, 0, 1}

Latitudes  == {[w |-> w, f |-> f, r |-> r] :
                  w \in LatWholes, f \in {0, 1}, r \in Remainders}
Longitudes == {[w |-> w, f |-> f, r |-> 0] : w \in LonWholes, f \in Q24Fracs}

\* altitudes in units of 2^-21: -256, -1, -2^-21, 0, 255, the first values
\* out of range, and one off the grid
Altitudes ==
    {[k |-> k, r |-> 0] :
        k \in {-256 * Pow2(21) - 1, -256 * Pow2(21), -Pow2(21), -1, 0,
               255 * Pow2(21), 255 * Pow2(21) + 1}}
    \cup {[k |-> 5, r |-> 1]}

InitAnchor ==
    /\ msg = <<>> /\ wq = <<>>
    /\ notif_handlers = <<>> /\ data_handlers = <<>>
    /\ pc = "idle" /\ cmds = <<>> /\ res = <<>> /\ written = <<>>
    /\ wqTag = <<>>
    /\ dev = [n \in 1..MaxCmds |-> "no"]
    /\ nRx = 0 /\ reader = "running" /\ rx = NoRx /\ run = <<>>
    /\ invoked = <<>> /\ ret = <<>> /\ obj = <<>>
    /\ buffer = <<>> /\ is_synchronized = FALSE /\ stream = <<>>
    /\ sent = <<>> /\ delivered = <<>>
    /\ \E x \in Latitudes, y \in Longitudes, z \in Altitudes :
          tx = <<[presence |-> 1, coord_type |-> 0, x |-> x, y |-> y, z |-> z]>>

\* compute_dl_tdoa_anchor_location_value(1, 0, x, y, z), and the value
\* written as the 13 bytes of the parameter: value.to_bytes(13, "little")
EncodeAnchor ==
    /\ pc = "idle"
    /\ LET e == compute_dl_tdoa_anchor_location_value(
                    tx[1].presence, tx[1].coord_type, tx[1].x, tx[1].y, tx[1].z)
       IN  /\ obj' = <<e>>
           /\ written' = IF e.exc = "none" THEN Reversed(e.value) ELSE <<>>
           /\ pc' = IF e.exc = "none" THEN "encoded" ELSE "raised"
    /\ UNCHANGED <<clientVars, cmds, res, wqTag, dev, readerVars, uartVars,
                   tx, ret>>

\* DlTdoaAnchorLocation("WGS-84", Buffer(written[1:]))
DecodeAnchor ==
    /\ pc = "encoded"
    /\ ret' = <<DlTdoaAnchorLocation([buffer |-> SubSeq(written, 2, 13), i |-> 0])>>
    /\ pc' = "decoded"
    /\ UNCHANGED <<clientVars, cmds, res, written, wqTag, dev, readerVars,
                   uartVars, tx, obj>>

NextAnchor == EncodeAnchor \/ DecodeAnchor

SpecAnchor == InitAnchor /\ [][NextAnchor]_vars

---------------------------------------------------------------------------
(* Claims checked under SpecAnchor *)

\* the coordinates are within the ranges of the claim
InRange(a) ==
    /\ ~CoordGreater(a.x, 90) /\ ~CoordLess(a.x, -90)
    /\ ~CoordGreater(a.y, 180) /\ ~CoordLess(a.y, -180)
    /\ a.z.k >= -256 * Pow2(21) /\ a.z.k <= 255 * Pow2(21)
    /\ ~(a.z.k = 255 * Pow2(21) /\ a.z.r > 0)
    /\ ~(a.z.k = -256 * Pow2(21) /\ a.z.r < 0)

\* the decoded coordinate is the value of the grid the original rounds to,
\* hence less than one unit (here at most a third) away from it
SameQ24(decoded, original) ==
    decoded.w = original.w /\ decoded.f = original.f /\ original.r \in -1..1

\* C28: for every (lat, lon, alt) with |lat| <= 90, |lon| <= 180 and alt in
\* [-256, 255], the location encoded by
\* compute_dl_tdoa_anchor_location_value(1, 0, ...) is accepted, and decoding
\* its 12 location bytes with DlTdoaAnchorLocation("WGS-84", ...) gives a
\* latitude, a longitude and an altitude within one unit of Q9.24 / Q9.21 of
\* the originals, negative values included.
TH_C28 ==
    /\ (pc # "idle" /\ InRange(tx[1])) => pc # "raised"
    /\ pc = "decoded" =>
          /\ InRange(tx[1])
          /\ ret[1].exc = "none"
          /\ SameQ24(ret[1].v[1].latitude, tx[1].x)
          /\ SameQ24(ret[1].v[1].longitude, tx[1].y)
          /\ ret[1].v[1].altitude.k = tx[1].z.k
          /\ tx[1].z.r \in -1..1

\* a location with a negative latitude, longitude and altitude, the
\* longitude beyond -128 degrees, has been encoded and decoded
W_C28 ==
    /\ pc = "decoded"
    /\ tx[1].x.w = -46 /\ tx[1].x.f = 1 /\ tx[1].x.r = -1
    /\ tx[1].y.w = -129 /\ tx[1].y.f = Q24FracMax
    /\ tx[1].z.k = -Pow2(21)
    /\ ret[1].v[1].latitude.w = -46
    /\ ret[1].v[1].altitude.k = -Pow2(21)

---------------------------------------------------------------------------
(* The response queue, checked under Spec *)

\* C29 (as claimed): in every reachable state the response queue of the
\* Client holds at most one response, whatever Response messages are
\* received and whatever command() calls are made, responses received while
\* no command is outstanding and responses received after a timeout included.
CE_C29 == Len(wq) <= 1

---------------------------------------------------------------------------
(* SpecProto: command() calls on the caller thread while the device sends  *)
(* fragments, complete messages and responses to the reader thread.  obj   *)
(* keeps, for every "Bad packet sequence" raised by packet_received, the   *)
(* number of command() calls made so far and whether the last one was      *)
(* waiting for its response.                                               *)

\* what the device sends: the first fragment of a notification, the last
\* one, a complete notification of another oid, and the responses
ProtoPackets ==
    {WirePacket(MT_Notif, PBF_NextExpected, 1, 2, <<0>>),
     WirePacket(MT_Notif, PBF_Final, 1, 2, <<1>>),
     WirePacket(MT_Notif, PBF_Final, 1, 3, <<0>>)}
    \cup {WirePacket(MT_Response, PBF_Final, k[1], k[2], <<0>>) : k \in Keys}

InitProto ==
    /\ msg = <<>> /\ wq = <<>>
    /\ notif_handlers = <<{DefaultKey}>>
    /\ data_handlers = <<>>
    /\ pc = "idle" /\ cmds = <<>> /\ res = <<>> /\ written = <<>>
    /\ wqTag = <<>>
    /\ dev = [n \in 1..MaxCmds |-> "no"]
    /\ nRx = 0 /\ reader = "running" /\ rx = NoRx /\ run = <<>>
    /\ invoked = <<>> /\ ret = <<>> /\ obj = <<>>
    /\ InitOther

\* command(): send_message, then block on the queue
ProtoCommand(k, payload) ==
    /\ pc = "idle"
    /\ Len(cmds) < MaxCmds
    /\ LET s == send_message(MT_Command, k[1], k[2], payload) IN
       /\ written' = s.packets
       /\ cmds' = Append(cmds, [gid |-> k[1], oid |-> k[2], payload |-> payload])
       /\ IF s.exc = "none"
          THEN pc' = "waiting" /\ res' = res
          ELSE pc' = "idle"
               /\ res' = Append(res, [kind |-> s.exc, ret |-> <<>>, took |-> <<>>])
    /\ UNCHANGED <<clientVars, wqTag, dev, readerVars, uartVars, tx, ret, obj>>

\* command(): wq.get returns a queued response
ProtoCmdGet ==
    /\ pc = "waiting"
    /\ wq # <<>>
    /\ LET i == wq_get_index(wq)
           cmd == cmds[Len(cmds)]
           r == command_result(cmd.gid, cmd.oid, wq[i])
       IN  /\ res' = Append(res, [kind |-> r.kind, ret |-> r.ret,
                                  took |-> <<[resp |-> wq[i], tag |-> wqTag[i]]>>])
           /\ wq' = RemoveAt(wq, i)
           /\ wqTag' = RemoveAt(wqTag, i)
    /\ pc' = "idle"
    /\ UNCHANGED <<msg, notif_handlers, data_handlers, cmds, written, dev,
                   readerVars, uartVars, tx, ret, obj>>

\* command(): wq.get gives up on an empty queue after timeout_delay
ProtoCmdTimeout ==
    /\ pc = "waiting"
    /\ wq = <<>>
    /\ res' = Append(res, [kind |-> "TimeoutError", ret |-> <<>>, took |-> <<>>])
    /\ pc' = "idle"
    /\ UNCHANGED <<clientVars, cmds, written, wqTag, dev, readerVars, uartVars,
                   tx, ret, obj>>

\* the reader thread receives a packet: UartTransportProtocol.check_data
\* hands it to Client.data_received, and what packet_received raises ends
\* the reader thread
ProtoReceive(p) ==
    /\ nRx < MaxRx + 1
    /\ reader = "running"
    /\ ReaderCall(p, FALSE)
    /\ reader' = reader_after(rx'.exc)
    /\ wqTag' = IF Len(wq') > Len(wq) THEN Append(wqTag, NewTag(0)) ELSE wqTag
    /\ obj' = IF rx'.exc = "ProtocolError"
              THEN Append(obj, [at |-> Len(cmds), waiting |-> (pc = "waiting")])
              ELSE obj
    /\ UNCHANGED <<pc, cmds, res, written, dev, uartVars, tx, ret>>

NextProto ==
    \/ \E k \in Keys, payload \in CmdPayloads : ProtoCommand(k, payload)
    \/ ProtoCmdGet
    \/ ProtoCmdTimeout
    \/ \E p \in ProtoPackets : ProtoReceive(p)

SpecProto == InitProto /\ [][NextProto]_vars

---------------------------------------------------------------------------
(* Claims checked under SpecProto *)

\* C30 (as claimed): when a fragment-sequence inconsistency ("Bad packet
\* sequence") is detected on the inbound stream while a command() call is
\* outstanding, that call fails with a ProtocolError, not with TimeoutError
\* and not with a normal return.
CE_C30 ==
    \A i \in DOMAIN obj :
        (obj[i].waiting /\ Len(res) >= obj[i].at) =>
            res[obj[i].at].kind = "ProtocolError"

---------------------------------------------------------------------------
(* SpecFlush: a fresh decoder reads a valid packet, then a header of a     *)
(* message type check_data does not know (6 or 7), then more bytes, cut    *)
(* into data_received calls in every possible way.                         *)

\* headers with MT 7 and MT 6
UnknownHeaders == {<<225, 2, 0, 1>>, <<192, 0, 0, 0>>}

\* what follows: bytes the resynchronization filter would purge (an empty
\* data packet by their looks, and three stray bytes), and a valid packet
FlushTails ==
    {<<0, 1, 0, 0>>, <<1, 2, 3>>} \cup FramePackets

InitFlush ==
    /\ msg = <<>> /\ wq = <<>>
    /\ notif_handlers = <<{DefaultKey}>> /\ data_handlers = <<{DefaultDpf}>>
    /\ pc = "idle" /\ cmds = <<>> /\ res = <<>> /\ written = <<>>
    /\ wqTag = <<>>
    /\ dev = [n \in 1..MaxCmds |-> "no"]
    /\ nRx = 0 /\ reader = "running" /\ rx = NoRx /\ run = <<>>
    /\ invoked = <<>> /\ ret = <<>> /\ obj = <<>>
    /\ buffer = <<>> /\ is_synchronized = FALSE
    /\ delivered = <<>> /\ tx = <<>>
    /\ \E p \in FramePackets, h \in UnknownHeaders, t \in FlushTails :
          /\ sent = <<p>>
          /\ stream = p \o h \o t

SpecFlush == InitFlush /\ [][NextFrame]_vars

---------------------------------------------------------------------------
(* Claims checked under SpecFlush *)

\* this step is a data_received call that drops bytes of a synchronized
\* decoder: what was buffered and received is neither delivered nor kept
FlushStep ==
    /\ nRx' = nRx + 1
    /\ rx'.exc = "none"
    /\ is_synchronized \/ sync_nibble(rx'.data[1])
    /\ buffer' = <<>>
    /\ Len(buffer) + Len(rx'.data) > Len(Flatten(delivered')) - Len(Flatten(delivered))

\* C31 (as claimed): when the header at the front of the receive buffer has
\* an MT that is not DataPacket, Command, Response or Notification, the
\* buffer is flushed and the decoder returns to the desynchronized state, so
\* that the bytes that follow pass the resynchronization filter again before
\* any packet is delivered.
CE_C31 == [][FlushStep => ~is_synchronized']_vars

---------------------------------------------------------------------------
(* SpecChunk: a fresh decoder reads a wire that carries well-formed        *)
(* packets only, the first one a Response or a Notification (so that the   *)
(* first call synchronizes), cut into data_received calls in every         *)
(* possible way.                                                           *)

\* the packets of SpecFrame, a data packet and a Response without payload
ChunkPackets ==
    FramePackets
    \cup {WirePacket(MT_DataPacket, PBF_Final, 1, 0, <<5, 6>>),
          WirePacket(MT_Response, PBF_Final, 1, 2, <<>>)}

ChunkSeqs ==
    {<<p>> \o q : p \in FramePackets,
                  q \in UNION {[1..n -> ChunkPackets] : n \in 0..(MaxFramePkts - 1)}}

InitChunk ==
    /\ msg = <<>> /\ wq = <<>>
    /\ notif_handlers = <<{DefaultKey}>> /\ data_handlers = <<{DefaultDpf}>>
    /\ pc = "idle" /\ cmds = <<>> /\ res = <<>> /\ written = <<>>
    /\ wqTag = <<>>
    /\ dev = [n \in 1..MaxCmds |-> "no"]
    /\ nRx = 0 /\ reader = "running" /\ rx = NoRx /\ run = <<>>
    /\ invoked = <<>> /\ ret = <<>> /\ obj = <<>>
    /\ buffer = <<>> /\ is_synchronized = FALSE
    /\ delivered = <<>> /\ tx = <<>>
    /\ sent \in ChunkSeqs
    /\ stream = Flatten(sent)

SpecChunk == InitChunk /\ [][NextFrame]_vars

---------------------------------------------------------------------------
(* Claims checked under SpecChunk *)

\* C32: once synchronized, for every byte stream of well-formed packets and
\* every way of splitting it into data_received calls, the decoder delivers
\* the packets of the stream, each exactly once and in stream order: after
\* every call the packets delivered are the first ones of the stream, the
\* buffer holds the bytes received of the next one and less than the whole
\* of it (an incomplete packet is held back until buffer_len >= 4 + size),
\* and nothing is lost.
TH_C32 ==
    LET k == Len(delivered) IN
    /\ k <= Len(sent)
    /\ delivered = SubSeq(sent, 1, k)
    /\ buffer \o stream = Flatten(SubSeq(sent, k + 1, Len(sent)))
    /\ k < Len(sent) => Len(buffer) < Len(sent[k + 1])
    /\ reader = "running"

\* a Response and a data packet were received in three calls or more, one
\* of them ending inside the header of the data packet, and both were
\* delivered
W_C32 ==
    /\ stream = <<>>
    /\ nRx >= 3
    /\ Len(sent) = 2 /\ HdrMT(sent[2][1]) = MT_DataPacket
    /\ delivered = sent
    /\ Len(rx.data) \in 3..5

---------------------------------------------------------------------------
(* SpecRange: send_message on header fields in and out of their widths     *)

\* mt, gid and oid around the widest value of 3, 4 and 6 bits
RangeMTs  == 0..9
RangeGids == {0, 1, 15, 16, 31}
RangeOids == {0, 2, 63, 64, 255}

\* no payload, one byte, one packet and a byte (two packets)
RangePayloads == {<<>>, <<0>>, Ramp(MAX_PAYLOAD + 1)}

InitRange ==
    /\ msg = <<>> /\ wq = <<>>
    /\ notif_handlers = <<>> /\ data_handlers = <<>>
    /\ pc = "idle" /\ cmds = <<>> /\ res = <<>> /\ written = <<>>
    /\ wqTag = <<>>
    /\ dev = [n \in 1..MaxCmds |-> "no"]
    /\ nRx = 0 /\ reader = "running" /\ rx = NoRx /\ run = <<>>
    /\ invoked = <<>> /\ ret = <<>> /\ obj = <<>>
    /\ buffer = <<>> /\ is_synchronized = FALSE /\ stream = <<>>
    /\ sent = <<>> /\ delivered = <<>>
    /\ \E mt \in RangeMTs, gid \in RangeGids, oid \in RangeOids,
          payload \in RangePayloads :
          tx = <<[mt |-> mt, gid |-> gid, oid |-> oid, payload |-> payload]>>

SpecRange == InitRange /\ [][NextFrag]_vars

---------------------------------------------------------------------------
(* Claims checked under SpecRange *)

\* a field of the header needs more bits than the header has for it
OutOfRange(h) == h.mt > 7 \/ h.gid > 15 \/ h.oid > 63

\* C33: send_message(mt, gid, oid, payload) with mt needing more than 3
\* bits, gid more than 4 bits or oid more than 6 bits raises ProtocolError
\* before any packet is written to the transport; with all three in range
\* it does not raise ProtocolError and writes its packets.
TH_C33 ==
    pc # "idle" =>
        IF OutOfRange(tx[1])
        THEN pc = "ProtocolError" /\ written = <<>>
        ELSE pc = "sent" /\ written # <<>>

\* a message of two packets with gid 16 was refused, nothing written
W_C33 ==
    /\ pc = "ProtocolError" /\ written = <<>>
    /\ tx[1].mt = 1 /\ tx[1].gid = 16 /\ tx[1].oid = 2
    /\ Len(tx[1].payload) = MAX_PAYLOAD + 1

---------------------------------------------------------------------------
(* SpecReentrant: the reader thread step by step, as in SpecOrder, with a  *)
(* notification handler that may call command() once.  No other thread     *)
(* calls command().  obj keeps the calls made from inside a handler: the    *)
(* handler invocation, the number of packets received and the responses    *)
(* queued when the call started, and how the call ended.                   *)

InitReentrant ==
    /\ msg = <<>> /\ wq = <<>>
    /\ notif_handlers \in {<<{<<1, 2>>}>>, <<{DefaultKey}>>}
    /\ data_handlers = <<>>
    /\ pc = "idle" /\ cmds = <<>> /\ written = <<>>
    /\ res = <<>> /\ wqTag = <<>>
    /\ dev = [n \in 1..MaxCmds |-> "no"]
    /\ nRx = 0 /\ reader = "running" /\ rx = NoRx /\ run = <<>>
    /\ invoked = <<>> /\ ret = <<>> /\ obj = <<>>
    /\ buffer = <<>> /\ is_synchronized = FALSE
    /\ delivered = <<>> /\ tx = <<>>
    /\ sent \in OrderSeqs
    /\ stream = Flatten(sent)

\* a queue whose get lets the calling thread go on with its loop
get_releases(thread) == "running"

\* where the thread that called command() is while wq.get waits: get blocks
\* the calling thread
get_blocks(thread) == thread \o "_command"

\* the handler calls command(gid, oid, payload): send_message, then wq.get
HandlerCommand(k, payload) ==
    /\ reader = "handler"
    /\ pc = "idle"
    /\ \A i \in DOMAIN obj : obj[i].inv # Len(invoked)
    /\ LET s == send_message(MT_Command, k[1], k[2], payload) IN
       /\ written' = s.packets
       /\ obj' = Append(obj, [inv |-> Len(invoked), gid |-> k[1], oid |-> k[2],
                              nRx |-> nRx, queued |-> Len(wq),
                              kind |-> "waiting", took |-> <<>>])
    /\ pc' = "waiting"
    /\ reader' = get_blocks("handler")
    /\ UNCHANGED <<clientVars, cmds, res, wqTag, dev, nRx, rx, run, invoked,
                   uartVars, tx, ret>>

\* command() in the handler: wq.get returns a queued response
HandlerCmdGet ==
    /\ pc = "waiting"
    /\ wq # <<>>
    /\ LET i == wq_get_index(wq)
           call == obj[Len(obj)]
           r == command_result(call.gid, call.oid, wq[i])
       IN  /\ obj' = [obj EXCEPT ![Len(obj)] =
                         [@ EXCEPT !.kind = r.kind,
                                   !.took = <<[resp |-> wq[i], tag |-> wqTag[i]]>>]]
           /\ wq' = RemoveAt(wq, i)
           /\ wqTag' = RemoveAt(wqTag, i)
    /\ pc' = "idle"
    /\ reader' = "handler"
    /\ UNCHANGED <<msg, notif_handlers, data_handlers, cmds, res, written, dev,
                   nRx, rx, run, invoked, uartVars, tx, ret>>

\* command() in the handler: wq.get gives up on an empty queue after
\* timeout_delay
HandlerCmdTimeout ==
    /\ pc = "waiting"
    /\ wq = <<>>
    /\ obj' = [obj EXCEPT ![Len(obj)] = [@ EXCEPT !.kind = "TimeoutError"]]
    /\ pc' = "idle"
    /\ reader' = "handler"
    /\ UNCHANGED <<clientVars, cmds, res, written, wqTag, dev, nRx, rx, run,
                   invoked, uartVars, tx, ret>>

NextReentrant ==
    \/ \E n \in 1..(6 * MaxOrderPkts) : Read(n)
    \/ CheckData
    \/ \E hraise \in BOOLEAN : HandlerReturn(hraise)
    \/ \E k \in Keys, payload \in CmdPayloads : HandlerCommand(k, payload)
    \/ HandlerCmdGet
    \/ HandlerCmdTimeout

SpecReentrant == InitReentrant /\ [][NextReentrant]_vars

---------------------------------------------------------------------------
(* Claims checked under SpecReentrant *)

\* C34: a command() call made from inside a notification handler never
\* obtains a response received after the call started, because no inbound
\* packet is processed while the handler runs: the call ends with
\* TimeoutError unless a response was already queued when it started, and
\* while it waits no packet of the inbound stream is delivered and no
\* response is queued.
TH_C34 ==
    /\ \A i \in DOMAIN obj :
          /\ obj[i].took # <<>> =>
                /\ obj[i].took[1].tag.id <= obj[i].nRx
                /\ obj[i].queued > 0
          /\ (obj[i].kind # "waiting" /\ obj[i].queued = 0) =>
                obj[i].kind = "TimeoutError"
          /\ obj[i].kind = "TimeoutError" => obj[i].queued = 0
    /\ pc = "waiting" =>
          /\ nRx = obj[Len(obj)].nRx
          /\ Len(wq) = obj[Len(obj)].queued

\* the handler's command() ended with TimeoutError while the response to it
\* was on the wire, unread
W_C34 ==
    /\ reader = "handler" /\ pc = "idle"
    /\ obj # <<>> /\ obj[Len(obj)].kind = "TimeoutError"
    /\ Len(stream) + Len(buffer) - Len(rx.data) >= 5
    /\ HdrMT(sent[Len(sent)][1]) = MT_Response

---------------------------------------------------------------------------
(* python_script/uci/core.py: send_message of the legacy client *)

\* the while loop of the legacy send_message, from offset p
RECURSIVE legacy_send_message_loop(_, _, _, _, _)
legacy_send_message_loop(mt, gid, oid, payload, p) ==
    LET total_len == Len(payload)
        left == total_len - p
        n    == IF left > LEGACY_MAX_PAYLOAD THEN LEGACY_MAX_PAYLOAD ELSE left
        pbf  == IF left > LEGACY_MAX_PAYLOAD THEN 1 ELSE 0
        pkt  == send_packet(mt, gid, oid, pbf, Slice(payload, p, p + n))
    IN  IF p + n = total_len
        THEN <<pkt>>
        ELSE <<pkt>> \o legacy_send_message_loop(mt, gid, oid, payload, p + n)

\* the legacy send_message: the exception raised and the packets written
legacy_send_message(mt, gid, oid, payload) ==
    IF bit_length(mt) > 3 \/ bit_length(gid) > 4 \/ bit_length(oid) > 6
    THEN [exc |-> "ProtocolError", packets |-> <<>>]
    ELSE [exc |-> "none",
          packets |-> legacy_send_message_loop(mt, gid, oid, payload, 0)]

---------------------------------------------------------------------------
(* SpecCap: send_message of either client on payloads of every length up   *)
(* to MaxFragLen                                                           *)

InitCap ==
    /\ msg = <<>> /\ wq = <<>>
    /\ notif_handlers = <<>> /\ data_handlers = <<>>
    /\ pc = "idle" /\ cmds = <<>> /\ res = <<>> /\ written = <<>>
    /\ wqTag = <<>>
    /\ dev = [n \in 1..MaxCmds |-> "no"]
    /\ nRx = 0 /\ reader = "running" /\ rx = NoRx /\ run = <<>>
    /\ invoked = <<>> /\ ret = <<>> /\ obj = <<>>
    /\ buffer = <<>> /\ is_synchronized = FALSE /\ stream = <<>>
    /\ sent = <<>> /\ delivered = <<>>
    /\ \E client \in {"new", "legacy"}, len \in 0..MaxFragLen :
          tx = <<[client |-> client, mt |-> MT_Command, gid |-> 1, oid |-> 2,
                  payload |-> Ramp(len)]>>

\* send_message of new_python_script/uci/core.py
SendNew ==
    /\ pc = "idle" /\ tx[1].client = "new"
    /\ LET s == send_message(tx[1].mt, tx[1].gid, tx[1].oid, tx[1].payload) IN
       /\ written' = s.packets
       /\ pc' = IF s.exc = "none" THEN "sent" ELSE s.exc
    /\ UNCHANGED <<clientVars, cmds, res, wqTag, dev, readerVars, uartVars, tx,
                   ret, obj>>

\* send_message of python_script/uci/core.py
SendLegacy ==
    /\ pc = "idle" /\ tx[1].client = "legacy"
    /\ LET s == legacy_send_message(tx[1].mt, tx[1].gid, tx[1].oid, tx[1].payload) IN
       /\ written' = s.packets
       /\ pc' = IF s.exc = "none" THEN "sent" ELSE s.exc
    /\ UNCHANGED <<clientVars, cmds, res, wqTag, dev, readerVars, uartVars, tx,
                   ret, obj>>

NextCap == SendNew \/ SendLegacy

SpecCap == InitCap /\ [][NextCap]_vars

---------------------------------------------------------------------------
(* Claims checked under SpecCap *)

\* C35 (as claimed): no packet written by Client.send_message carries more
\* than 250 payload bytes, for both clients of the repository (the one of
\* new_python_script and the legacy one of python_script) and every payload
\* length.
CE_C35 ==
    pc = "sent" => \A i \in DOMAIN written : Len(written[i]) - 4 <= 250

---------------------------------------------------------------------------
(* Fragment-sequence errors, checked under SpecReasm *)

\* this step is the call of packet_received that follows a call rejected
\* with "Bad packet sequence", on a packet that is a complete message
AfterBadSequence ==
    /\ rx.exc = "ProtocolError"
    /\ nRx' = nRx + 1
    /\ HdrPBF(rx'.data[1]) = PBF_Final

\* C36 (as claimed): after packet_received has rejected a packet with "Bad
\* packet sequence", the next packet received that is a complete message
\* (PBF = Final), whatever its (MT, GID, OID), is accepted and dispatched.
CE_C36 ==
    [][AfterBadSequence => (rx'.exc # "ProtocolError" /\ rx'.disp # <<>>)]_vars

---------------------------------------------------------------------------
(* SpecAgree: a fresh decoder with a Client behind it reads a Response     *)
(* (which synchronizes it) and then one packet of every message type       *)
(* check_data accepts, with small values of header bytes 2 and 3 and the   *)
(* payload check_data expects, cut into calls in every possible way.       *)

\* a packet of message type mt whose header bytes 2 and 3 are b2 and b3,
\* as long as check_data takes it to be
AgreePacket(mt, b2, b3) ==
    LET header == <<mt * 32 + 1, 2, b2, b3>>
    IN  header \o Fill(header_size(header), 9)

\* the packets of at most 8 payload bytes among them
AgreePackets ==
    {q \in {AgreePacket(mt, b2, b3) : mt \in 0..5, b2 \in {0, 1, 2}, b3 \in {0, 1}} :
        Len(q) <= 4 + 8}

InitAgree ==
    /\ msg = <<>> /\ wq = <<>>
    /\ notif_handlers = <<{DefaultKey}>> /\ data_handlers = <<{DefaultDpf}>>
    /\ pc = "idle" /\ cmds = <<>> /\ res = <<>> /\ written = <<>>
    /\ wqTag = <<>>
    /\ dev = [n \in 1..MaxCmds |-> "no"]
    /\ nRx = 0 /\ reader = "running" /\ rx = NoRx /\ run = <<>>
    /\ invoked = <<>> /\ ret = <<>> /\ obj = <<>>
    /\ buffer = <<>> /\ is_synchronized = FALSE
    /\ delivered = <<>> /\ tx = <<>>
    /\ \E p \in FramePackets, q \in AgreePackets :
          /\ sent = <<p, q>>
          /\ stream = p \o q

NextAgree == \E n \in 1..17 : Feed(n)

SpecAgree == InitAgree /\ [][NextAgree]_vars

---------------------------------------------------------------------------
(* Claims checked under SpecAgree *)

\* C37 (as claimed): every packet that the UART framing layer delivers, for
\* every header MT it accepts (0 to 5) and every value of header bytes 2 and
\* 3, is processed by Client.data_received as exactly one packet_received
\* call on exactly the delivered bytes: the call raises nothing and the
\* messages dispatched are the packets delivered, payload for payload.
CE_C37 ==
    [][nRx' = nRx + 1 =>
          LET new == SubSeq(delivered', Len(delivered) + 1, Len(delivered'))
          IN  /\ rx'.exc = "none"
              /\ Len(rx'.disp) = Len(new)
              /\ \A i \in DOMAIN new :
                    rx'.disp[i].payload = Slice(new[i], 4, Len(new[i]))]_vars

---------------------------------------------------------------------------
(* fira.py: Client_extension.__init__ and the module's default handlers.   *)
(* A dict is a function from keys to the names of the handlers.  In        *)
(* SpecHandlers notif_handlers is the heap of the dict objects, a sequence *)
(* whose first element is the module-level notification_default_handlers,  *)
(* and obj the Clients constructed: the index in the heap of the dict      *)
(* their notif_handlers field refers to, their own data_handler dict, and  *)
(* the notif_handlers argument they were given.                            *)

\* notification_default_handlers as the module defines it (two of its six
\* entries: (Gid.Session, OidSession.Status) and ("default", "default"))
notification_default_handlers ==
    (<<1, 2>> :> "show_session_state") @@ (DefaultKey :> "default_warning")

\* d.update(h)
dict_merge(d, h) == h @@ d

\* handlers = notification_default_handlers; handlers.update(...);
\* kwargs["notif_handlers"] = handlers
init_handlers(heap, given) ==
    [ref |-> 1, heap |-> [heap EXCEPT ![1] = dict_merge(@, given)]]

\* message_received: the handler a notification (gid, oid) goes to
notif_target(d, key) ==
    IF key \in DOMAIN d THEN d[key]
    ELSE IF DefaultKey \in DOMAIN d THEN d[DefaultKey]
    ELSE "log"

---------------------------------------------------------------------------
(* SpecHandlers: Clients are constructed one after the other, with or      *)
(* without a notif_handlers argument, and receive notifications.           *)

\* no argument, and handlers for (1, 2), for (1, 3) and for the default
HandlerArgs ==
    {<<>>, <<1, 2>> :> "user_status", <<1, 3>> :> "user_other",
     DefaultKey :> "user_default"}

InitHandlers ==
    /\ msg = <<>> /\ wq = <<>>
    /\ notif_handlers = <<notification_default_handlers>>
    /\ data_handlers = <<>>
    /\ pc = "idle" /\ cmds = <<>> /\ res = <<>> /\ written = <<>>
    /\ wqTag = <<>>
    /\ dev = [n \in 1..MaxCmds |-> "no"]
    /\ nRx = 0 /\ reader = "running" /\ rx = NoRx /\ run = <<>>
    /\ invoked = <<>> /\ ret = <<>> /\ obj = <<>>
    /\ InitOther

\* Client(notif_handlers=given), or Client() when given is empty
Construct(given) ==
    /\ Len(obj) < MaxClients
    /\ LET h == init_handlers(notif_handlers, given)
       IN  /\ notif_handlers' = h.heap
           /\ obj' = Append(obj, [notif_handlers |-> h.ref,
                                  data_handler |-> {DefaultDpf},
                                  mac_size |-> 2, given |-> given])
    /\ UNCHANGED <<msg, wq, data_handlers, callerVars, readerVars, uartVars, tx, ret>>

\* Client i receives the notification key: message_received
Notify(i, key) ==
    /\ i \in DOMAIN obj
    /\ ret' = <<[client |-> i, key |-> key,
                 to |-> notif_target(notif_handlers[obj[i].notif_handlers], key)]>>
    /\ UNCHANGED <<clientVars, callerVars, readerVars, uartVars, tx, obj>>

NextHandlers ==
    \/ \E given \in HandlerArgs : Construct(given)
    \/ \E i \in 1..MaxClients, key \in Keys : Notify(i, key)

SpecHandlers == InitHandlers /\ [][NextHandlers]_vars

---------------------------------------------------------------------------
(* Claims checked under SpecHandlers *)

\* C38 (as claimed): constructing a Client with a notif_handlers argument
\* does not change the handlers of any other Client, and a Client
\* constructed afterwards without that argument dispatches notifications
\* with the module's default handlers only: the handlers of every Client
\* are the defaults overridden by its own argument, and a notification goes
\* to the handler they name.
CE_C38 ==
    /\ \A i \in DOMAIN obj :
          notif_handlers[obj[i].notif_handlers]
              = dict_merge(notification_default_handlers, obj[i].given)
    /\ ret # <<>> =>
          ret[1].to = notif_target(dict_merge(notification_default_handlers,
                                              obj[ret[1].client].given),
                                   ret[1].key)

===========================================================================
